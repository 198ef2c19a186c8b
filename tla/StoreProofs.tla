----------------------------- MODULE StoreProofs -----------------------------
(***************************************************************************)
(* Proofs about the two stores of pkg/journal/store.go.                    *)
(*                                                                         *)
(* MemoryStore, for any sets of runs, bodies, decision ids, writers and    *)
(* readers: what appending a sealed, linked record does to a verified      *)
(* chain and what a head digest determines; StoreInv is inductive, the     *)
(* store is append-only, and the two-store Append implements the atomic    *)
(* commit of ChainLog.                                                     *)
(*                                                                         *)
(* FileStore, for any runs, any records and any sequence of failed writes, *)
(* failed syncs, crashes and reloads: a store that is up holds what it     *)
(* acknowledged, and it refuses to start only after a write failed or a    *)
(* crash cut a line.                                                       *)
(***************************************************************************)
EXTENDS MemoryStore, FileStore, SequenceTheorems, FiniteSetTheorems, TLAPS

-----------------------------------------------------------------------------
(* The hash chain *)

LEMMA AppendFacts ==
  ASSUME NEW S, NEW s \in Seq(S), NEW e \in S
  PROVE  /\ Append(s, e) \in Seq(S)
         /\ Len(Append(s, e)) = Len(s) + 1
         /\ \A i \in 1..Len(s) : Append(s, e)[i] = s[i]
         /\ Append(s, e)[Len(s) + 1] = e
         /\ Len(s) \in Nat
  OBVIOUS

\* A body sealed over a digest is a record, and it passes the integrity check.
LEMMA SealFacts ==
  ASSUME NEW prev \in Hashes, NEW body \in Bodies
  PROVE  Seal(prev, body) \in Record /\ VerifyIntegrity(Seal(prev, body))
  BY AppendFacts DEF Seal, Record, Hashes, RecordHash, VerifyIntegrity

LEMMA HeadHashType ==
  ASSUME NEW chain \in Seq(Record)
  PROVE  HeadHash(chain) \in Hashes
<1>1. CASE chain = << >>
  BY <1>1, EmptySeq DEF HeadHash, Genesis, Hashes
<1>2. CASE chain # << >>
  <2>1. Len(chain) \in 1..Len(chain)
    BY <1>2, EmptySeq
  <2>2. chain[Len(chain)] \in Record
    BY <2>1, ElementOfSeq
  <2> QED BY <1>2, <2>2 DEF HeadHash, Record
<1> QED BY <1>1, <1>2

\* A sealed record that names the head of a verified chain extends it to a
\* verified chain.
LEMMA ChainExtends ==
  ASSUME NEW chain \in Seq(Record), NEW r \in Record,
         VerifyChain(chain), HashesCommit(chain),
         VerifyIntegrity(r), r.prev = HeadHash(chain)
  PROVE  VerifyChain(Append(chain, r)) /\ HashesCommit(Append(chain, r))
<1> DEFINE n == Len(chain)
           longer == Append(chain, r)
<1>1. /\ longer \in Seq(Record)
      /\ Len(longer) = n + 1
      /\ \A i \in 1..n : longer[i] = chain[i]
      /\ longer[n + 1] = r
      /\ n \in Nat
  BY AppendFacts
<1> HIDE DEF longer
<1>2. n = 0 <=> chain = << >>
  BY EmptySeq
<1>3. VerifyChain(longer)
  <2> SUFFICES ASSUME NEW i \in 1..(n + 1)
               PROVE  /\ VerifyIntegrity(longer[i])
                      /\ longer[i].prev = IF i = 1 THEN Genesis ELSE longer[i-1].hash
    BY <1>1 DEF VerifyChain
  <2>1. CASE i \in 1..n
    <3>1. i # 1 => i - 1 \in 1..n
      BY <1>1, <2>1
    <3>2. longer[i] = chain[i] /\ (i # 1 => longer[i-1] = chain[i-1])
      BY <1>1, <2>1, <3>1
    <3> QED BY <2>1, <3>2 DEF VerifyChain
  <2>2. CASE i = n + 1
    <3>1. longer[i] = r
      BY <1>1, <2>2
    <3>2. CASE n = 0
      BY <1>1, <1>2, <2>2, <3>1, <3>2 DEF HeadHash
    <3>3. CASE n # 0
      <4>1. i # 1 /\ i - 1 = n /\ n \in 1..n
        BY <1>1, <2>2, <3>3
      <4>2. longer[i-1] = chain[n]
        BY <1>1, <4>1
      <4> QED BY <1>2, <3>1, <3>3, <4>1, <4>2 DEF HeadHash
    <3> QED BY <3>2, <3>3
  <2> QED BY <1>1, <2>1, <2>2
<1>4. HashesCommit(longer)
  <2> SUFFICES ASSUME NEW i \in 1..(n + 1)
               PROVE  longer[i].hash = [j \in 1..i |-> longer[j].body]
    BY <1>1 DEF HashesCommit
  <2>1. CASE i \in 1..n
    <3>1. chain[i].hash = [j \in 1..i |-> chain[j].body]
      BY <2>1 DEF HashesCommit
    <3>2. \A j \in 1..i : longer[j] = chain[j]
      BY <1>1, <2>1
    <3> QED BY <1>1, <2>1, <3>1, <3>2
  <2>2. CASE i = n + 1
    <3>1. r.prev = [j \in 1..n |-> chain[j].body]
      <4>1. CASE n = 0
        BY <1>1, <1>2, <4>1 DEF HeadHash, Genesis
      <4>2. CASE n # 0
        <5>1. n \in 1..n
          BY <1>1, <4>2
        <5> QED BY <1>2, <4>2, <5>1 DEF HeadHash, HashesCommit
      <4> QED BY <4>1, <4>2
    <3>2. r.prev \in Seq(Bodies) /\ r.body \in Bodies /\ r.hash = Append(r.prev, r.body)
      BY DEF Record, Hashes, VerifyIntegrity, RecordHash
    <3>3. Len(r.prev) = n
      BY <1>1, <3>1, <3>2, LenProperties
    <3>4. /\ r.hash \in Seq(Bodies)
          /\ Len(r.hash) = n + 1
          /\ \A j \in 1..n : r.hash[j] = chain[j].body
          /\ r.hash[n + 1] = r.body
      BY <3>1, <3>2, <3>3, AppendFacts
    <3>5. r.hash \in [1..(n + 1) -> Bodies]
      BY <3>4, LenProperties
    <3>6. \A j \in 1..(n + 1) : r.hash[j] = longer[j].body
      BY <1>1, <3>4
    <3>7. r.hash = [j \in 1..(n + 1) |-> longer[j].body]
      BY <3>5, <3>6
    <3> QED BY <1>1, <2>2, <3>7
  <2> QED BY <1>1, <2>1, <2>2
<1> QED BY <1>3, <1>4 DEF longer

\* Tamper evidence: two chains whose digests commit to their history and that
\* end in the same digest hold the same bodies in the same order.
THEOREM HeadDetermines ==
  ASSUME NEW c1 \in Seq(Record), NEW c2 \in Seq(Record),
         HashesCommit(c1), HashesCommit(c2), HeadHash(c1) = HeadHash(c2)
  PROVE  /\ Len(c1) = Len(c2)
         /\ \A i \in 1..Len(c1) : c1[i].body = c2[i].body
<1>1. ASSUME NEW c \in Seq(Record), HashesCommit(c)
      PROVE  /\ Len(c) \in Nat
             /\ HeadHash(c) = [j \in 1..Len(c) |-> c[j].body]
  <2>1. Len(c) \in Nat /\ (Len(c) = 0 <=> c = << >>)
    BY EmptySeq
  <2>2. CASE c = << >>
    BY <2>1, <2>2 DEF HeadHash, Genesis
  <2>3. CASE c # << >>
    <3>1. Len(c) \in 1..Len(c)
      BY <2>1, <2>3
    <3> QED BY <1>1, <2>1, <2>3, <3>1 DEF HeadHash, HashesCommit
  <2> QED BY <2>1, <2>2, <2>3
<1>2. /\ Len(c1) \in Nat /\ HeadHash(c1) = [j \in 1..Len(c1) |-> c1[j].body]
      /\ Len(c2) \in Nat /\ HeadHash(c2) = [j \in 1..Len(c2) |-> c2[j].body]
  BY <1>1
<1>3. 1..Len(c1) = 1..Len(c2)
  BY <1>2
<1>4. Len(c1) = Len(c2)
  BY <1>2, <1>3
<1> QED BY <1>2, <1>4

-----------------------------------------------------------------------------
(* Records of the store *)

LEMMA NoRecordType == NoBody \in Bodies /\ NoRecord \in Record
<1>1. NoBody \in Bodies
  BY StoreAssumption DEF NoBody
<1>2. Genesis \in Hashes
  BY EmptySeq DEF Genesis, Hashes
<1> QED BY <1>1, <1>2, SealFacts DEF NoRecord

LEMMA BodyOfRecord ==
  ASSUME NEW r \in Record
  PROVE  /\ r.body \in Bodies /\ r.body.run \in RunIDs /\ r.body.id \in DecisionIDs
         /\ r.prev \in Hashes /\ r.hash \in Hashes
BY StoreAssumption DEF Record

-----------------------------------------------------------------------------
(* Types *)

LEMMA TypeInit == Init => TypeOK
<1> SUFFICES ASSUME Init PROVE TypeOK
  OBVIOUS
<1>1. /\ NoRecord \in Record
      /\ NoBody \in Bodies /\ NoBody.run \in RunIDs /\ NoBody.id \in DecisionIDs
  BY NoRecordType, StoreAssumption
<1>2. << >> \in Seq(Record)
  BY EmptySeq
<1>3. reader \in [Readers -> Verification]
  BY <1>1, <1>2 DEF Init, Verification
<1> QED BY <1>1, <1>2, <1>3 DEF Init, TypeOK, WriterPC, Results

LEMMA TypeNext == TypeOK /\ [Next]_vars => TypeOK'
<1> SUFFICES ASSUME TypeOK, [Next]_vars PROVE TypeOK'
  OBVIOUS
<1> USE DEF TypeOK
<1>1. ASSUME NEW w \in Writers, CallAppend(w) PROVE TypeOK'
  <2>1. PICK body \in Bodies, prev \in KnownHashes :
          \E hash \in {RecordHash(prev, body), Genesis} :
            LET r == [prev |-> prev, body |-> body, hash |-> hash]
            IN IF VerifyIntegrity(r)
               THEN /\ rec' = [rec EXCEPT ![w] = r]
                    /\ pc' = [pc EXCEPT ![w] = "lock"]
                    /\ ret' = [ret EXCEPT ![w] = "none"]
               ELSE Return(w, "corrupted")
    BY <1>1 DEF CallAppend
  <2>2. PICK hash \in {RecordHash(prev, body), Genesis} :
            LET r == [prev |-> prev, body |-> body, hash |-> hash]
            IN IF VerifyIntegrity(r)
               THEN /\ rec' = [rec EXCEPT ![w] = r]
                    /\ pc' = [pc EXCEPT ![w] = "lock"]
                    /\ ret' = [ret EXCEPT ![w] = "none"]
               ELSE Return(w, "corrupted")
    BY <2>1
  <2>3. Genesis \in Hashes
    BY EmptySeq DEF Genesis, Hashes
  <2>4. prev \in Hashes
    BY <2>3 DEF KnownHashes, Record
  <2>5. RecordHash(prev, body) \in Hashes
    BY <2>4, AppendFacts DEF RecordHash, Hashes
  <2>6. hash \in Hashes
    BY <2>3, <2>5
  <2>7. [prev |-> prev, body |-> body, hash |-> hash] \in Record
    BY <2>4, <2>6 DEF Record
  <2> QED BY <1>1, <2>2, <2>7, NoRecordType DEF CallAppend, Return, WriterPC, Results
<1>2. ASSUME NEW w \in Writers, Lock(w) PROVE TypeOK'
  BY <1>2 DEF Lock, WriterPC
<1>3. ASSUME NEW w \in Writers, RejectDuplicate(w) PROVE TypeOK'
  BY <1>3, NoRecordType DEF RejectDuplicate, Return, WriterPC, Results
<1>4. ASSUME NEW w \in Writers, RejectLink(w) PROVE TypeOK'
  BY <1>4, NoRecordType DEF RejectLink, Return, WriterPC, Results
<1>5. ASSUME NEW w \in Writers, StoreRecords(w) PROVE TypeOK'
  BY <1>5 DEF StoreRecords, WriterPC
<1>6. ASSUME NEW w \in Writers, StoreRuns(w) PROVE TypeOK'
  <2>1. rec[w].body.run \in RunIDs /\ runMap[rec[w].body.run] \in Seq(Record)
    BY BodyOfRecord
  <2>2. Append(runMap[rec[w].body.run], rec[w]) \in Seq(Record)
    BY <2>1, AppendFacts
  <2>3. runMap' \in [RunIDs -> Seq(Record)]
    BY <1>6, <2>2 DEF StoreRuns
  <2> QED BY <1>6, <2>3, NoRecordType DEF StoreRuns, Return, WriterPC, Results
<1>7. ASSUME NEW v \in Readers, StartVerify(v) PROVE TypeOK'
  <2>1. PICK id \in DecisionIDs :
          reader' = [reader EXCEPT ![v] =
            [at    |-> IF Stored(id) THEN "list" ELSE "done",
             id    |-> id,
             run   |-> IF Stored(id) THEN RunOf(id) ELSE @.run,
             acked |-> \E run \in RunIDs : InRun(run, id),
             recs  |-> << >>]]
    BY <1>7 DEF StartVerify
  <2>2. (\E run \in RunIDs : InRun(run, id)) \in BOOLEAN
    OBVIOUS
  <2>3. Stored(id) => RunOf(id) \in RunIDs
    BY BodyOfRecord DEF Stored, RunOf
  <2>4. << >> \in Seq(Record)
    BY EmptySeq
  <2>5. reader[v].run \in RunIDs
    BY DEF Verification
  <2>6. reader' \in [Readers -> Verification]
    BY <2>1, <2>2, <2>3, <2>4, <2>5 DEF Verification
  <2> QED BY <1>7, <2>6 DEF StartVerify, writerVars
<1>8. ASSUME NEW v \in Readers, ListRun(v) PROVE TypeOK'
  <2>1. reader' \in [Readers -> Verification]
    BY <1>8 DEF ListRun, Verification
  <2> QED BY <1>8, <2>1 DEF ListRun, writerVars
<1>9. CASE UNCHANGED vars
  BY <1>9 DEF vars
<1> QED BY <1>1, <1>2, <1>3, <1>4, <1>5, <1>6, <1>7, <1>8, <1>9 DEF Next, AppendStep

\* The snapshots and the calls in progress keep their types in every
\* execution of the store.
THEOREM TypeCorrect == Spec => []TypeOK
  BY TypeInit, TypeNext, PTL DEF Spec

-----------------------------------------------------------------------------
(* The invariant *)

LEMMA InvInit == Init => StoreInv
<1> SUFFICES ASSUME Init PROVE StoreInv
  OBVIOUS
<1>1. \A run \in RunIDs : runMap[run] = << >> /\ Len(runMap[run]) = 0
  BY EmptySeq DEF Init
<1>2. recordsMap = {} /\ pc = [w \in Writers |-> "idle"]
      /\ \A v \in Readers : reader[v].at = "idle"
  BY DEF Init
<1>3. MutexHeld /\ PendingAppends /\ ListingSound /\ VerifierSound
  BY <1>2 DEF MutexHeld, PendingAppends, ListingSound, VerifierSound
<1>4. \A run \in RunIDs : 1..Len(runMap[run]) = {}
  <2>1. 1..0 = {}
    OBVIOUS
  <2> QED BY <1>1, <2>1
<1>5. RecordsFiled /\ ChainsVerify /\ RunsIndexed /\ IDsUnique
  BY <1>2, <1>4 DEF RecordsFiled, ChainsVerify, RunsIndexed, IDsUnique,
                    VerifyChain, HashesCommit
<1> QED BY <1>3, <1>5, TypeInit DEF StoreInv

\* The part of the invariant that speaks of the two snapshots only.
SnapshotsOK == RecordsFiled /\ ChainsVerify /\ RunsIndexed /\ IDsUnique

\* A step that writes neither snapshot, nor the readers, preserves all but the
\* writers' part.
LEMMA SnapshotsStable ==
  ASSUME StoreInv, UNCHANGED <<recordsMap, runMap>>
  PROVE  SnapshotsOK'
BY DEF SnapshotsOK, StoreInv, RecordsFiled, ChainsVerify, RunsIndexed, IDsUnique

LEMMA ReadersStable ==
  ASSUME StoreInv, UNCHANGED <<runMap, reader>>
  PROVE  (ListingSound /\ VerifierSound)'
BY DEF StoreInv, ListingSound, VerifierSound, InRun

\* An Append that returns, or starts, without touching the snapshots.
LEMMA WritersStable ==
  ASSUME StoreInv, NEW w \in Writers, UNCHANGED <<recordsMap, runMap, reader>>,
         rec' = [rec EXCEPT ![w] = rec'[w]], pc' = [pc EXCEPT ![w] = pc'[w]],
         pc'[w] \in {"idle", "lock"},
         pc'[w] = "lock" => VerifyIntegrity(rec'[w]),
         \A x \in Writers : x # w /\ mu = x => mu' = x,
         TypeOK'
  PROVE  StoreInv'
<1> USE DEF StoreInv, TypeOK
<1>1. \A x \in Writers : x # w => rec'[x] = rec[x] /\ pc'[x] = pc[x]
  OBVIOUS
<1>2. MutexHeld'
  BY <1>1 DEF MutexHeld
<1>3. PendingAppends'
  BY <1>1 DEF PendingAppends, InRun
<1> QED BY <1>2, <1>3, SnapshotsStable, ReadersStable DEF SnapshotsOK

LEMMA CallAppendInv ==
  ASSUME StoreInv, TypeOK', NEW w \in Writers, CallAppend(w)
  PROVE  StoreInv'
<1> USE DEF StoreInv, TypeOK
<1>1. PICK body \in Bodies, prev \in KnownHashes :
        \E hash \in {RecordHash(prev, body), Genesis} :
          LET r == [prev |-> prev, body |-> body, hash |-> hash]
          IN IF VerifyIntegrity(r)
             THEN /\ rec' = [rec EXCEPT ![w] = r]
                  /\ pc' = [pc EXCEPT ![w] = "lock"]
                  /\ ret' = [ret EXCEPT ![w] = "none"]
             ELSE Return(w, "corrupted")
  BY DEF CallAppend
<1>2. PICK hash \in {RecordHash(prev, body), Genesis} :
          LET r == [prev |-> prev, body |-> body, hash |-> hash]
          IN IF VerifyIntegrity(r)
             THEN /\ rec' = [rec EXCEPT ![w] = r]
                  /\ pc' = [pc EXCEPT ![w] = "lock"]
                  /\ ret' = [ret EXCEPT ![w] = "none"]
             ELSE Return(w, "corrupted")
  BY <1>1
<1> DEFINE r == [prev |-> prev, body |-> body, hash |-> hash]
<1> HIDE DEF r
<1>3. CASE VerifyIntegrity(r)
  <2>1. rec' = [rec EXCEPT ![w] = r] /\ pc' = [pc EXCEPT ![w] = "lock"]
    BY <1>2, <1>3 DEF r
  <2> QED BY <1>3, <2>1, WritersStable DEF CallAppend
<1>4. CASE ~ VerifyIntegrity(r)
  <2>1. rec' = [rec EXCEPT ![w] = NoRecord] /\ pc' = [pc EXCEPT ![w] = "idle"]
    BY <1>2, <1>4 DEF r, Return
  <2> QED BY <2>1, WritersStable DEF CallAppend
<1> QED BY <1>3, <1>4

LEMMA LockInv ==
  ASSUME StoreInv, TypeOK', NEW w \in Writers, Lock(w)
  PROVE  StoreInv'
<1> USE DEF StoreInv, TypeOK, Lock
<1>1. \A x \in Writers : x # w => pc'[x] = pc[x]
  OBVIOUS
<1>2. MutexHeld'
  <2>1. Free \notin Writers
    BY StoreAssumption
  <2> QED BY <1>1, <2>1 DEF MutexHeld
<1>3. PendingAppends'
  BY DEF PendingAppends, InRun
<1> QED BY <1>2, <1>3, SnapshotsStable, ReadersStable DEF SnapshotsOK

LEMMA RejectInv ==
  ASSUME StoreInv, TypeOK', NEW w \in Writers, RejectDuplicate(w) \/ RejectLink(w)
  PROVE  StoreInv'
<1>1. /\ pc[w] = "check" /\ mu' = Free /\ UNCHANGED <<recordsMap, runMap, reader>>
      /\ rec' = [rec EXCEPT ![w] = NoRecord] /\ pc' = [pc EXCEPT ![w] = "idle"]
  BY DEF RejectDuplicate, RejectLink, Return
<1>2. mu = w
  BY <1>1 DEF StoreInv, MutexHeld
<1> QED BY <1>1, <1>2, WritersStable DEF StoreInv, TypeOK

LEMMA StoreRecordsInv ==
  ASSUME StoreInv, TypeOK', NEW w \in Writers, StoreRecords(w)
  PROVE  StoreInv'
<1> USE DEF StoreInv, StoreRecords
<1>1. /\ pc[w] = "check" /\ mu = w
      /\ \A x \in Writers : x # w => pc'[x] = pc[x] /\ pc[x] \notin {"check", "publish"}
      /\ pc'[w] = "publish"
  BY DEF MutexHeld, TypeOK
<1>2. \A run \in RunIDs : ~ InRun(run, rec[w].body.id)
  BY DEF InRun, RunsIndexed, Stored
<1>3. MutexHeld'
  BY <1>1 DEF MutexHeld
<1>4. PendingAppends'
  <2>1. VerifyIntegrity(rec[w])
    BY <1>1 DEF PendingAppends
  <2> SUFFICES ASSUME NEW x \in Writers
               PROVE  (/\ pc[x] # "idle" => VerifyIntegrity(rec[x])
                       /\ pc[x] = "publish" =>
                            /\ rec[x] \in recordsMap
                            /\ rec[x].prev = HeadHash(runMap[rec[x].body.run])
                            /\ \A run \in RunIDs : ~ InRun(run, rec[x].body.id))'
    BY DEF PendingAppends
  <2>2. CASE x = w
    BY <1>2, <2>1, <2>2 DEF InRun
  <2>3. CASE x # w
    BY <1>1, <2>3 DEF PendingAppends
  <2> QED BY <2>2, <2>3
<1>5. RecordsFiled' /\ ChainsVerify'
  BY DEF RecordsFiled, ChainsVerify
<1>6. RunsIndexed'
  BY DEF RunsIndexed
<1>7. IDsUnique'
  BY DEF IDsUnique, Stored
<1> QED BY <1>3, <1>4, <1>5, <1>6, <1>7, ReadersStable

\* The second store extends one verified chain by a sealed, linked record.
LEMMA StoreRunsInv ==
  ASSUME StoreInv, TypeOK', NEW w \in Writers, StoreRuns(w)
  PROVE  StoreInv'
<1> DEFINE R == rec[w].body.run
<1>1. /\ pc[w] = "publish" /\ mu = w
      /\ \A x \in Writers : x # w => pc'[x] = pc[x] /\ rec'[x] = rec[x]
                                     /\ pc[x] \notin {"check", "publish"}
      /\ pc'[w] = "idle"
      /\ UNCHANGED <<recordsMap, reader>>
  BY DEF StoreInv, StoreRuns, Return, MutexHeld, TypeOK
<1>2. /\ rec[w] \in Record /\ rec[w] \in recordsMap /\ VerifyIntegrity(rec[w])
      /\ rec[w].prev = HeadHash(runMap[R])
      /\ \A run \in RunIDs : ~ InRun(run, rec[w].body.id)
  BY <1>1 DEF StoreInv, PendingAppends, TypeOK
<1>3. R \in RunIDs /\ runMap[R] \in Seq(Record)
  BY <1>2, BodyOfRecord DEF StoreInv, TypeOK
<1>4. /\ runMap'[R] = Append(runMap[R], rec[w])
      /\ \A run \in RunIDs : run # R => runMap'[run] = runMap[run]
  BY <1>3 DEF StoreInv, StoreRuns, TypeOK
<1>5. /\ Len(runMap'[R]) = Len(runMap[R]) + 1
      /\ Len(runMap[R]) \in Nat
      /\ \A i \in 1..Len(runMap[R]) : runMap'[R][i] = runMap[R][i]
      /\ runMap'[R][Len(runMap[R]) + 1] = rec[w]
  BY <1>2, <1>3, <1>4, AppendFacts
<1> HIDE DEF R
<1>6. \A run \in RunIDs : \A i \in 1..Len(runMap'[run]) :
        \/ i \in 1..Len(runMap[run]) /\ runMap'[run][i] = runMap[run][i]
        \/ run = R /\ i = Len(runMap[R]) + 1 /\ runMap'[run][i] = rec[w]
  <2> SUFFICES ASSUME NEW run \in RunIDs, NEW i \in 1..Len(runMap'[run])
               PROVE  \/ i \in 1..Len(runMap[run]) /\ runMap'[run][i] = runMap[run][i]
                      \/ /\ run = R /\ i = Len(runMap[R]) + 1
                         /\ runMap'[run][i] = rec[w]
    OBVIOUS
  <2>1. CASE run # R
    BY <1>4, <2>1
  <2>2. CASE run = R
    <3>1. i \in 1..Len(runMap[R]) \/ i = Len(runMap[R]) + 1
      BY <1>5, <2>2
    <3> QED BY <1>5, <2>2, <3>1
  <2> QED BY <2>1, <2>2
<1>7. \A run \in RunIDs : \A i \in 1..Len(runMap[run]) :
        i \in 1..Len(runMap'[run]) /\ runMap'[run][i] = runMap[run][i]
  <2> SUFFICES ASSUME NEW run \in RunIDs, NEW i \in 1..Len(runMap[run])
               PROVE  i \in 1..Len(runMap'[run]) /\ runMap'[run][i] = runMap[run][i]
    OBVIOUS
  <2>1. CASE run # R
    BY <1>4, <2>1
  <2>2. CASE run = R
    BY <1>5, <2>2
  <2> QED BY <2>1, <2>2
<1>8. MutexHeld' /\ PendingAppends'
  BY <1>1 DEF MutexHeld, PendingAppends, StoreInv
<1>9. RecordsFiled'
  BY <1>6 DEF RecordsFiled, StoreInv, R
<1>10. RunsIndexed'
  BY <1>1, <1>2, <1>6 DEF RunsIndexed, StoreInv
<1>11. ChainsVerify'
  <2> SUFFICES ASSUME NEW run \in RunIDs
               PROVE  (VerifyChain(runMap[run]) /\ HashesCommit(runMap[run]))'
    BY DEF ChainsVerify
  <2>1. VerifyChain(runMap[run]) /\ HashesCommit(runMap[run])
    BY DEF StoreInv, ChainsVerify
  <2>2. CASE run # R
    BY <1>4, <2>1, <2>2
  <2>3. CASE run = R
    <3>1. VerifyChain(Append(runMap[R], rec[w])) /\ HashesCommit(Append(runMap[R], rec[w]))
      BY <1>2, <1>3, <2>1, <2>3, ChainExtends DEF R
    <3>2. runMap'[run] = Append(runMap[R], rec[w])
      BY <1>4, <2>3
    <3> QED BY <3>1, <3>2
  <2> QED BY <2>2, <2>3
<1>12. IDsUnique'
  <2>1. \A r1, r2 \in recordsMap' : r1.body.id = r2.body.id => r1 = r2
    BY <1>1 DEF StoreInv, IDsUnique
  <2> SUFFICES ASSUME NEW run1 \in RunIDs, NEW run2 \in RunIDs,
                      NEW i \in 1..Len(runMap'[run1]), NEW j \in 1..Len(runMap'[run2]),
                      runMap'[run1][i].body.id = runMap'[run2][j].body.id
               PROVE  run1 = run2 /\ i = j
    BY <2>1 DEF IDsUnique
  <2>2. \A run \in RunIDs : \A k \in 1..Len(runMap[run]) :
          runMap[run][k].body.id # rec[w].body.id
    BY <1>2 DEF InRun
  <2>3. CASE i \in 1..Len(runMap[run1]) /\ runMap'[run1][i] = runMap[run1][i]
    <3>1. runMap'[run1][i].body.id # rec[w].body.id
      BY <2>2, <2>3
    <3>2. j \in 1..Len(runMap[run2]) /\ runMap'[run2][j] = runMap[run2][j]
      BY <1>6, <3>1
    <3> QED BY <2>3, <3>2 DEF StoreInv, IDsUnique
  <2>4. CASE run1 = R /\ i = Len(runMap[R]) + 1 /\ runMap'[run1][i] = rec[w]
    <3>1. ~ (j \in 1..Len(runMap[run2]) /\ runMap'[run2][j] = runMap[run2][j])
      BY <2>2, <2>4
    <3> QED BY <1>6, <2>4, <3>1
  <2> QED BY <1>6, <2>3, <2>4
<1>13. \A run \in RunIDs : \A id : InRun(run, id) => InRun(run, id)'
  BY <1>7 DEF InRun
<1>14. ListingSound' /\ VerifierSound'
  BY <1>1, <1>13 DEF StoreInv, ListingSound, VerifierSound, TypeOK, Verification
<1> QED BY <1>8, <1>9, <1>10, <1>11, <1>12, <1>14 DEF StoreInv

\* A verifier finds its decision in the index, so the run it will list is the
\* one that holds the decision: ids are unique.
LEMMA StartVerifyInv ==
  ASSUME StoreInv, TypeOK', NEW v \in Readers, StartVerify(v)
  PROVE  StoreInv'
<1>1. UNCHANGED <<recordsMap, runMap, writerVars>>
  BY DEF StartVerify
<1>2. PICK id \in DecisionIDs :
        reader' = [reader EXCEPT ![v] =
          [at    |-> IF Stored(id) THEN "list" ELSE "done",
           id    |-> id,
           run   |-> IF Stored(id) THEN RunOf(id) ELSE @.run,
           acked |-> \E run \in RunIDs : InRun(run, id),
           recs  |-> << >>]]
  BY DEF StartVerify
<1>3. \A x \in Readers : x # v => reader'[x] = reader[x]
  BY <1>2 DEF StoreInv, TypeOK
<1>4. /\ reader'[v].at = IF Stored(id) THEN "list" ELSE "done"
      /\ reader'[v].id = id
      /\ reader'[v].run = IF Stored(id) THEN RunOf(id) ELSE reader[v].run
      /\ reader'[v].acked = \E run \in RunIDs : InRun(run, id)
      /\ reader'[v].recs = << >>
  BY <1>2 DEF StoreInv, TypeOK
<1>5. ASSUME NEW run \in RunIDs, InRun(run, id)
      PROVE  Stored(id) /\ RunOf(id) = run
  <2>1. PICK i \in 1..Len(runMap[run]) : runMap[run][i].body.id = id
    BY <1>5 DEF InRun
  <2>2. runMap[run][i] \in recordsMap /\ runMap[run][i].body.run = run
    BY DEF StoreInv, RunsIndexed, RecordsFiled
  <2>3. \A r \in recordsMap : r.body.id = id => r = runMap[run][i]
    BY <2>1, <2>2 DEF StoreInv, IDsUnique
  <2> QED BY <2>1, <2>2, <2>3 DEF Stored, RunOf
<1>6. ListingSound'
  <2> SUFFICES ASSUME NEW x \in Readers, reader'[x].at = "list", reader'[x].acked
               PROVE  InRun(reader[x].run, reader[x].id)'
    BY DEF ListingSound
  <2>1. CASE x = v
    BY <1>1, <1>4, <1>5, <2>1 DEF InRun
  <2>2. CASE x # v
    BY <1>1, <1>3, <2>2 DEF StoreInv, ListingSound, InRun
  <2> QED BY <2>1, <2>2
<1>7. VerifierSound'
  <2> SUFFICES ASSUME NEW x \in Readers, reader'[x].at = "done"
               PROVE  (/\ VerifyChain(reader[x].recs)
                       /\ reader[x].acked =>
                            \E i \in 1..Len(reader[x].recs) :
                              reader[x].recs[i].body.id = reader[x].id)'
    BY DEF VerifierSound
  <2>1. CASE x = v
    <3>1. ~ Stored(id) /\ ~ reader'[v].acked
      BY <1>4, <1>5, <2>1
    <3>2. VerifyChain(<< >>)
      BY EmptySeq DEF VerifyChain
    <3> QED BY <1>4, <2>1, <3>1, <3>2
  <2>2. CASE x # v
    BY <1>3, <2>2 DEF StoreInv, VerifierSound
  <2> QED BY <2>1, <2>2
<1>8. MutexHeld' /\ PendingAppends'
  BY <1>1 DEF StoreInv, MutexHeld, PendingAppends, writerVars, InRun
<1> QED BY <1>1, <1>6, <1>7, <1>8, SnapshotsStable DEF StoreInv, SnapshotsOK

LEMMA ListRunInv ==
  ASSUME StoreInv, TypeOK', NEW v \in Readers, ListRun(v)
  PROVE  StoreInv'
<1>1. /\ UNCHANGED <<recordsMap, runMap, writerVars>>
      /\ reader[v].at = "list"
      /\ \A x \in Readers : x # v => reader'[x] = reader[x]
      /\ reader'[v] = [reader[v] EXCEPT !.at = "done", !.recs = runMap[reader[v].run]]
  BY DEF ListRun, StoreInv, TypeOK
<1>2. /\ reader'[v].at = "done" /\ reader'[v].recs = runMap[reader[v].run]
      /\ reader'[v].acked = reader[v].acked /\ reader'[v].id = reader[v].id
      /\ reader[v].run \in RunIDs
  BY <1>1 DEF StoreInv, TypeOK, Verification
<1>3. ListingSound'
  <2> SUFFICES ASSUME NEW x \in Readers, reader'[x].at = "list", reader'[x].acked
               PROVE  InRun(reader[x].run, reader[x].id)'
    BY DEF ListingSound
  <2>1. x # v
    BY <1>2
  <2> QED BY <1>1, <2>1 DEF StoreInv, ListingSound, InRun
<1>4. VerifierSound'
  <2> SUFFICES ASSUME NEW x \in Readers, reader'[x].at = "done"
               PROVE  (/\ VerifyChain(reader[x].recs)
                       /\ reader[x].acked =>
                            \E i \in 1..Len(reader[x].recs) :
                              reader[x].recs[i].body.id = reader[x].id)'
    BY DEF VerifierSound
  <2>1. CASE x = v
    <3>1. VerifyChain(reader'[v].recs)
      BY <1>2 DEF StoreInv, ChainsVerify
    <3>2. reader'[v].acked => InRun(reader[v].run, reader[v].id)
      BY <1>1, <1>2 DEF StoreInv, ListingSound
    <3> QED BY <1>2, <2>1, <3>1, <3>2 DEF InRun
  <2>2. CASE x # v
    BY <1>1, <2>2 DEF StoreInv, VerifierSound
  <2> QED BY <2>1, <2>2
<1>5. MutexHeld' /\ PendingAppends'
  BY <1>1 DEF StoreInv, MutexHeld, PendingAppends, writerVars, InRun
<1> QED BY <1>1, <1>3, <1>4, <1>5, SnapshotsStable DEF StoreInv, SnapshotsOK

\* StoreInv is inductive.
LEMMA InvNext == StoreInv /\ [Next]_vars => StoreInv'
<1> SUFFICES ASSUME StoreInv, [Next]_vars PROVE StoreInv'
  OBVIOUS
<1>1. TypeOK'
  BY TypeNext DEF StoreInv
<1>2. CASE UNCHANGED vars
  <2>1. MutexHeld' /\ PendingAppends'
    BY <1>2 DEF StoreInv, MutexHeld, PendingAppends, vars, InRun
  <2> QED BY <1>1, <1>2, <2>1, SnapshotsStable, ReadersStable DEF StoreInv, SnapshotsOK, vars
<1> QED BY <1>1, <1>2, CallAppendInv, LockInv, RejectInv, StoreRecordsInv,
           StoreRunsInv, StartVerifyInv, ListRunInv DEF Next, AppendStep

\* The invariant holds in every execution, whatever Append calls and lock-free
\* verifications interleave.
THEOREM StoreSafe == Spec => []StoreInv
  BY InvInit, InvNext, PTL DEF Spec

\* Every published run verifies, and its digests commit to its history.
THEOREM ChainsAlwaysVerify == Spec => []ChainsVerify
<1>1. StoreInv => ChainsVerify
  BY DEF StoreInv
<1> QED BY <1>1, StoreSafe, PTL

\* A record that ListByRun returns is one Get returns.
THEOREM RunsAlwaysIndexed == Spec => []RunsIndexed
<1>1. StoreInv => RunsIndexed
  BY DEF StoreInv
<1> QED BY <1>1, StoreSafe, PTL

\* No decision id is stored twice.
THEOREM IDsAlwaysUnique == Spec => []IDsUnique
<1>1. StoreInv => IDsUnique
  BY DEF StoreInv
<1> QED BY <1>1, StoreSafe, PTL

\* No lock-free verification reports a broken chain or misses an acknowledged
\* decision.
THEOREM VerifierAlwaysSound == Spec => []VerifierSound
<1>1. StoreInv => VerifierSound
  BY DEF StoreInv
<1> QED BY <1>1, StoreSafe, PTL

-----------------------------------------------------------------------------
(* Steps: append-only, and the refinement of ChainLog *)

\* What the second store does to the runs, in terms of ChainLog.
LEMMA StoreRunsCommits ==
  ASSUME StoreInv, NEW w \in Writers, StoreRuns(w)
  PROVE  /\ rec[w].body.run \in RunIDs
         /\ Log!Commit(rec[w].body.run)
         /\ \A i \in 1..Len(runMap[rec[w].body.run]) :
              runMap'[rec[w].body.run][i] = runMap[rec[w].body.run][i]
<1> DEFINE R == rec[w].body.run
<1>1. /\ rec[w] \in Record /\ VerifyIntegrity(rec[w])
      /\ rec[w].prev = HeadHash(runMap[R])
      /\ \A run \in RunIDs : ~ InRun(run, rec[w].body.id)
  BY DEF StoreInv, StoreRuns, PendingAppends, TypeOK
<1>2. R \in RunIDs /\ runMap[R] \in Seq(Record)
  BY <1>1, BodyOfRecord DEF StoreInv, TypeOK
<1>3. runMap' = [runMap EXCEPT ![R] = Append(@, rec[w])]
  BY DEF StoreRuns
<1>4. runMap'[R] = Append(runMap[R], rec[w])
  BY <1>2, <1>3 DEF StoreInv, TypeOK
<1> HIDE DEF R
<1>5. /\ Len(runMap'[R]) = Len(runMap[R]) + 1
      /\ \A i \in 1..Len(runMap[R]) : runMap'[R][i] = runMap[R][i]
      /\ runMap'[R][Len(runMap[R]) + 1] = rec[w]
  BY <1>1, <1>2, <1>4, AppendFacts
<1>6. Log!Admissible(rec[w])
  BY <1>1 DEF Log!Admissible, Log!VerifyIntegrity, Log!RecordHash, Log!HeadHash,
                 Log!Genesis, VerifyIntegrity, RecordHash, HeadHash, Genesis, InRun, R
<1>7. Log!Commit(R)
  BY <1>3, <1>5, <1>6 DEF Log!Commit, R
<1> QED BY <1>2, <1>5, <1>7 DEF R

\* Every step other than the second store leaves the runs alone, and none
\* takes a record out of the index.
LEMMA OtherStepsKeepRuns ==
  ASSUME [Next]_vars, ~ \E w \in Writers : StoreRuns(w)
  PROVE  UNCHANGED runMap /\ recordsMap \subseteq recordsMap'
BY DEF Next, AppendStep, CallAppend, Lock, RejectDuplicate, RejectLink,
       StoreRecords, StartVerify, ListRun, vars

\* No step drops or rewrites a record of either snapshot.
THEOREM StoreAppendOnly == Spec => AppendOnly
<1> DEFINE Grows == /\ recordsMap \subseteq recordsMap'
                    /\ \A run \in RunIDs :
                         /\ Len(runMap[run]) <= Len(runMap'[run])
                         /\ \A i \in 1..Len(runMap[run]) : runMap'[run][i] = runMap[run][i]
<1>1. ASSUME StoreInv, [Next]_vars PROVE Grows
  <2>0. \A run \in RunIDs : Len(runMap[run]) \in Nat
    BY <1>1, LenProperties DEF StoreInv, TypeOK
  <2>1. CASE ~ \E w \in Writers : StoreRuns(w)
    BY <1>1, <2>0, <2>1, OtherStepsKeepRuns
  <2>2. CASE \E w \in Writers : StoreRuns(w)
    <3>1. PICK w \in Writers : StoreRuns(w)
      BY <2>2
    <3> DEFINE R == rec[w].body.run
    <3>2. /\ R \in RunIDs
          /\ Len(runMap'[R]) = Len(runMap[R]) + 1
          /\ \A i \in 1..Len(runMap[R]) : runMap'[R][i] = runMap[R][i]
      BY <1>1, <3>1, StoreRunsCommits DEF Log!Commit
    <3>3. \A run \in RunIDs : run # R => runMap'[run] = runMap[run]
      BY <1>1, <3>1 DEF StoreRuns, StoreInv, TypeOK
    <3> HIDE DEF R
    <3>4. \A run \in RunIDs : Len(runMap[run]) <= Len(runMap'[run])
      BY <2>0, <3>2, <3>3
    <3>5. recordsMap \subseteq recordsMap'
      BY <3>1 DEF StoreRuns
    <3> QED BY <3>2, <3>3, <3>4, <3>5
  <2> QED BY <2>1, <2>2
<1>2. StoreInv /\ [Next]_vars => [Grows]_vars
  BY <1>1
<1> HIDE DEF Grows
<1>3. Spec => [][Grows]_vars
  BY <1>2, StoreSafe, PTL DEF Spec
<1> QED BY <1>3 DEF AppendOnly, Grows

\* The two-store Append implements the atomic commit: readers of the runs see
\* one record committed at a time, sealed, linked and with a fresh id.
THEOREM StoreImplementsLog == Spec => ImplementsLog
<1>1. Init => Log!LogInit
  BY DEF Init, Log!LogInit
<1>2. StoreInv /\ [Next]_vars => [Log!LogNext]_runMap
  <2> SUFFICES ASSUME StoreInv, [Next]_vars PROVE [Log!LogNext]_runMap
    OBVIOUS
  <2>1. CASE \E w \in Writers : StoreRuns(w)
    BY <2>1, StoreRunsCommits DEF Log!LogNext
  <2>2. CASE ~ \E w \in Writers : StoreRuns(w)
    BY <2>2, OtherStepsKeepRuns
  <2> QED BY <2>1, <2>2
<1> QED BY <1>1, <1>2, StoreSafe, PTL DEF Spec, ImplementsLog, Log!LogSpec

-----------------------------------------------------------------------------
(* The file: its invariant *)

\* What was synced stays in the file.
DurablePrefix ==
  /\ Len(durable.lines) <= Len(file.lines)
  /\ \A i \in 1..Len(durable.lines) : durable.lines[i] = file.lines[i]

\* An acknowledged record is a synced line, unless it was written behind a cut
\* line; then the line of both is synced, which no reload will accept.
AckedFiled ==
  \A r \in acked : \E i \in 1..Len(durable.lines) : durable.lines[i] \in {r, Garbled}

\* The Append in progress has a record in memory, and after its write in the
\* file, with the same exception.
InProgress ==
  /\ state \in {"write", "sync"} => appending \in Record /\ Indexed(appending)
  /\ state = "sync" =>
       \E i \in 1..Len(file.lines) : file.lines[i] \in {appending, Garbled}

\* Lines that load, as do all their prefixes, unless one is too long.
Sane(lines) ==
  /\ lines \in Seq(Record)
  /\ \A i, j \in 1..Len(lines) : lines[i].body.id = lines[j].body.id => i = j
  /\ \A k \in 0..Len(lines), run \in RunIDs : VerifyChain(OfRun(run, SubSeq(lines, 1, k)))

\* The file as it will be when the Append in progress has written.
Ahead == IF state = "write" THEN Append(file.lines, appending) ELSE file.lines

\* As long as there is no fault, the lines of the file form chains and memory
\* holds what is in it.
Intact ==
  /\ file.tail = NoText
  /\ Sane(Ahead)
  /\ Up => \A run \in RunIDs : runs[run] = OfRun(run, Ahead)

\* A store that is not up has nothing in memory.
EmptyIndex == ~ Up => runs = [run \in RunIDs |-> << >>]

FileInv ==
  /\ FileTypeOK
  /\ DurablePrefix
  /\ AckedFiled
  /\ InProgress
  /\ ~ faulted => Intact
  /\ AckedKept
  /\ RefusesOnlyFaults
  /\ EmptyIndex

-----------------------------------------------------------------------------
(* Sequences and least numbers *)

LEMMA LeastOf ==
  ASSUME NEW T \in SUBSET Nat, T # {}
  PROVE  \E k \in T : \A i \in T : k <= i
<1> DEFINE R == OpToRel(<, Nat)
<1>1. IsWellFoundedOn(R, Nat)
  BY NatLessThanWellFounded
<1>2. \A x, y \in Nat : <<x, y>> \in R <=> x < y
  BY DEF OpToRel
<1> HIDE DEF R
<1>3. PICK k \in T : \A i \in T : ~ (<<i, k>> \in R)
  BY <1>1, WFMin
<1>4. ASSUME NEW i \in T PROVE k <= i
  <2>1. i \in Nat /\ k \in Nat
    OBVIOUS
  <2>2. ~ (i < k)
    BY <1>2, <1>3, <2>1, Zenon
  <2> QED BY <2>1, <2>2
<1> QED BY <1>4

LEMMA Appended ==
  ASSUME NEW S, NEW s \in Seq(S), NEW e
  PROVE  /\ Len(s) \in Nat
         /\ Len(Append(s, e)) = Len(s) + 1
         /\ \A i \in 1..Len(s) : Append(s, e)[i] = s[i] /\ s[i] \in S
         /\ Append(s, e)[Len(s) + 1] = e
         /\ e \in S => Append(s, e) \in Seq(S)
OBVIOUS

LEMMA Cut ==
  ASSUME NEW S, NEW s \in Seq(S), NEW k \in 0..Len(s)
  PROVE  /\ SubSeq(s, 1, k) \in Seq(S)
         /\ Len(SubSeq(s, 1, k)) = k
         /\ \A i \in 1..k : SubSeq(s, 1, k)[i] = s[i]
         /\ \A j \in 0..k : SubSeq(SubSeq(s, 1, k), 1, j) = SubSeq(s, 1, j)
<1>1. /\ SubSeq(s, 1, k) \in Seq(S)
      /\ Len(SubSeq(s, 1, k)) = k
      /\ \A i \in 1..k : SubSeq(s, 1, k)[i] = s[i]
  OBVIOUS
<1>2. ASSUME NEW j \in 0..k
      PROVE  SubSeq(SubSeq(s, 1, k), 1, j) = SubSeq(s, 1, j)
  <2> DEFINE a == SubSeq(s, 1, k)
  <2>1. j \in 0..Len(a) /\ j \in 0..Len(s)
    BY <1>1
  <2>2. /\ SubSeq(a, 1, j) \in Seq(S) /\ Len(SubSeq(a, 1, j)) = j
        /\ \A i \in 1..j : SubSeq(a, 1, j)[i] = a[i]
    BY <1>1, <2>1
  <2>3. /\ SubSeq(s, 1, j) \in Seq(S) /\ Len(SubSeq(s, 1, j)) = j
        /\ \A i \in 1..j : SubSeq(s, 1, j)[i] = s[i]
    BY <2>1
  <2>4. \A i \in 1..j : SubSeq(a, 1, j)[i] = SubSeq(s, 1, j)[i]
    BY <1>1, <2>2, <2>3
  <2> HIDE DEF a
  <2>5. SubSeq(a, 1, j) = SubSeq(s, 1, j)
    BY <2>2, <2>3, <2>4, SeqEqual
  <2> QED BY <2>5 DEF a
<1> QED BY <1>1, <1>2

\* Prefixes of a sequence one longer.
LEMMA CutLonger ==
  ASSUME NEW S, NEW s \in Seq(S), NEW e \in S
  PROVE  /\ \A k \in 0..Len(s) : SubSeq(Append(s, e), 1, k) = SubSeq(s, 1, k)
         /\ SubSeq(Append(s, e), 1, Len(s) + 1) = Append(s, e)
<1> DEFINE t == Append(s, e)
<1>1. /\ t \in Seq(S) /\ Len(t) = Len(s) + 1 /\ Len(s) \in Nat
      /\ \A i \in 1..Len(s) : t[i] = s[i]
  BY Appended
<1> HIDE DEF t
<1>2. ASSUME NEW k \in 0..Len(s) PROVE SubSeq(t, 1, k) = SubSeq(s, 1, k)
  <2>1. /\ SubSeq(t, 1, k) \in Seq(S) /\ Len(SubSeq(t, 1, k)) = k
        /\ \A i \in 1..k : SubSeq(t, 1, k)[i] = t[i]
    BY <1>1, Cut
  <2>2. /\ SubSeq(s, 1, k) \in Seq(S) /\ Len(SubSeq(s, 1, k)) = k
        /\ \A i \in 1..k : SubSeq(s, 1, k)[i] = s[i]
    BY Cut
  <2>3. \A i \in 1..k : SubSeq(t, 1, k)[i] = SubSeq(s, 1, k)[i]
    BY <1>1, <2>1, <2>2
  <2> QED BY <2>1, <2>2, <2>3, SeqEqual
<1>3. SubSeq(t, 1, Len(t)) = t
  <2>1. /\ SubSeq(t, 1, Len(t)) \in Seq(S) /\ Len(SubSeq(t, 1, Len(t))) = Len(t)
        /\ \A i \in 1..Len(t) : SubSeq(t, 1, Len(t))[i] = t[i]
    BY <1>1, Cut
  <2> QED BY <1>1, <2>1, SeqEqual
<1> QED BY <1>1, <1>2, <1>3 DEF t

-----------------------------------------------------------------------------
(* What OfRun takes *)

\* The records of the run among the first k texts, for every k up to n.
Takes(g, n, run, texts) ==
  g = [k \in 0..n |-> IF k = 0 THEN << >>
                      ELSE IF texts[k].body.run = run THEN Append(g[k-1], texts[k])
                      ELSE g[k-1]]

LEMMA TakesExists ==
  ASSUME NEW run, NEW texts, NEW n \in Nat
  PROVE  \E g : Takes(g, n, run, texts)
<1> DEFINE T == {k \in Nat : ~ \E g : Takes(g, k, run, texts)}
<1> SUFFICES ASSUME T # {} PROVE FALSE
  OBVIOUS
<1>1. PICK k \in T : \A i \in T : k <= i
  <2>1. T \in SUBSET Nat
    OBVIOUS
  <2> HIDE DEF T
  <2> QED BY <2>1, LeastOf
<1>2. CASE k = 0
  <2>1. Takes([i \in 0..0 |-> << >>], 0, run, texts)
    <3>1. \A i \in 0..0 : i = 0
      OBVIOUS
    <3> QED BY <3>1 DEF Takes
  <2> QED BY <1>2, <2>1
<1>3. CASE k # 0
  <2>1. k - 1 \in Nat /\ k - 1 \notin T /\ k \in Nat
    BY <1>1, <1>3
  <2>2. PICK g : Takes(g, k - 1, run, texts)
    BY <2>1
  <2> DEFINE step(f, i) == IF i = 0 THEN << >>
                           ELSE IF texts[i].body.run = run THEN Append(f[i-1], texts[i])
                           ELSE f[i-1]
  <2> DEFINE h == [i \in 0..k |-> step(g, i)]
  <2>3. \A i \in 0..(k - 1) : g[i] = step(g, i)
    BY <2>2 DEF Takes
  <2>4. \A i \in 0..k : i # 0 => i - 1 \in 0..(k - 1) /\ i - 1 \in 0..k
    BY <2>1
  <2>5. \A i \in 0..k : h[i] = step(g, i)
    OBVIOUS
  <2>6. \A i \in 0..(k - 1) : h[i] = g[i]
    <3> HIDE DEF h, step
    <3>1. \A i \in 0..(k - 1) : i \in 0..k
      BY <2>1
    <3> QED BY <2>3, <2>5, <3>1
  <2>7. \A i \in 0..k : step(g, i) = step(h, i)
    <3> HIDE DEF h
    <3> QED BY <2>4, <2>6
  <2>8. h = [i \in 0..k |-> step(h, i)]
    <3> HIDE DEF step
    <3>1. h = [i \in 0..k |-> step(g, i)]
      BY DEF h
    <3> HIDE DEF h
    <3> QED BY <2>7, <3>1, Zenon
  <2>9. Takes(h, k, run, texts)
    <3> HIDE DEF h
    <3> QED BY <2>8 DEF Takes
  <2> QED BY <1>1, <2>9
<1> QED BY <1>2, <1>3

LEMMA OfRunTakes ==
  ASSUME NEW run, NEW texts, Len(texts) \in Nat
  PROVE  \E g : Takes(g, Len(texts), run, texts) /\ OfRun(run, texts) = g[Len(texts)]
<1> DEFINE g == CHOOSE f : Takes(f, Len(texts), run, texts)
<1>1. Takes(g, Len(texts), run, texts)
  <2>1. \E f : Takes(f, Len(texts), run, texts)
    BY TakesExists
  <2> QED BY <2>1, Zenon
<1>2. OfRun(run, texts) = g[Len(texts)]
  BY Zenon DEF OfRun, Takes
<1> QED BY <1>1, <1>2

\* What is taken of a prefix does not depend on what follows it.
LEMMA TakesAgree ==
  ASSUME NEW run, NEW s, NEW t, NEW n \in Nat, NEW m \in Nat, n <= m,
         \A i \in 1..n : s[i] = t[i],
         NEW g, Takes(g, n, run, s), NEW h, Takes(h, m, run, t)
  PROVE  \A k \in 0..n : g[k] = h[k]
<1> DEFINE T == {k \in 0..n : g[k] # h[k]}
<1> SUFFICES ASSUME T # {} PROVE FALSE
  OBVIOUS
<1>1. PICK k \in T : \A i \in T : k <= i
  <2>1. T \in SUBSET Nat
    OBVIOUS
  <2> HIDE DEF T
  <2> QED BY <2>1, LeastOf
<1>2. k # 0
  BY <1>1 DEF Takes
<1>3. k \in 1..n /\ k - 1 \in 0..n /\ k - 1 \notin T /\ k \in 0..m /\ k \in 0..n
  BY <1>1, <1>2
<1>4. g[k-1] = h[k-1]
  BY <1>3
<1>5. s[k] = t[k]
  BY <1>3
<1>6. g[k] = IF s[k].body.run = run THEN Append(g[k-1], s[k]) ELSE g[k-1]
  BY <1>2, <1>3 DEF Takes
<1>7. h[k] = IF t[k].body.run = run THEN Append(h[k-1], t[k]) ELSE h[k-1]
  BY <1>2, <1>3 DEF Takes
<1> QED BY <1>1, <1>4, <1>5, <1>6, <1>7

LEMMA OfRunEmpty ==
  ASSUME NEW run PROVE OfRun(run, << >>) = << >>
<1>1. Len(<< >>) = 0
  OBVIOUS
<1>2. PICK g : Takes(g, 0, run, << >>) /\ OfRun(run, << >>) = g[0]
  BY <1>1, OfRunTakes
<1> QED BY <1>2 DEF Takes

LEMMA OfRunAppend ==
  ASSUME NEW run, NEW s \in Seq(Record), NEW r \in Record
  PROVE  /\ r.body.run = run => OfRun(run, Append(s, r)) = Append(OfRun(run, s), r)
         /\ r.body.run # run => OfRun(run, Append(s, r)) = OfRun(run, s)
<1> DEFINE t == Append(s, r)
           n == Len(s)
<1>1. /\ n \in Nat /\ Len(t) = n + 1 /\ t[n+1] = r
      /\ \A i \in 1..n : s[i] = t[i]
  BY Appended
<1> HIDE DEF t, n
<1>2. PICK g : Takes(g, n, run, s) /\ OfRun(run, s) = g[n]
  BY <1>1, OfRunTakes DEF n
<1>3. PICK h : Takes(h, n + 1, run, t) /\ OfRun(run, t) = h[n+1]
  <2>1. Len(t) \in Nat
    BY <1>1
  <2> QED BY <1>1, <2>1, OfRunTakes
<1>4. g[n] = h[n]
  <2>1. n + 1 \in Nat /\ n <= n + 1 /\ n \in 0..n
    BY <1>1
  <2> DEFINE longer == n + 1
  <2>2. Takes(g, n, run, s) /\ Takes(h, longer, run, t)
    BY <1>2, <1>3
  <2>3. longer \in Nat /\ n <= longer /\ n \in Nat /\ \A i \in 1..n : s[i] = t[i]
    BY <1>1, <2>1
  <2> HIDE DEF longer
  <2>4. \A k \in 0..n : g[k] = h[k]
    BY <2>2, <2>3, TakesAgree, SMT
  <2> QED BY <2>1, <2>4
<1>5. h[n+1] = IF t[n+1].body.run = run THEN Append(h[n], t[n+1]) ELSE h[n]
  <2>1. n + 1 \in 0..(n + 1) /\ n + 1 # 0 /\ (n + 1) - 1 = n
    BY <1>1
  <2>2. h[n+1] = IF t[n+1].body.run = run THEN Append(h[(n+1)-1], t[n+1]) ELSE h[(n+1)-1]
    BY <1>3, <2>1 DEF Takes
  <2> QED BY <2>1, <2>2
<1> QED BY <1>1, <1>2, <1>3, <1>4, <1>5 DEF t

\* Everything of the run is taken, and only records are.
LEMMA OfRunKeeps ==
  ASSUME NEW run, NEW s \in Seq(Record)
  PROVE  /\ OfRun(run, s) \in Seq(Record)
         /\ \A i \in 1..Len(s) : s[i].body.run = run =>
              \E j \in 1..Len(OfRun(run, s)) : OfRun(run, s)[j] = s[i]
<1> DEFINE n == Len(s)
           Kept(f, k) == /\ f \in Seq(Record)
                         /\ \A i \in 1..k : s[i].body.run = run =>
                              \E j \in 1..Len(f) : f[j] = s[i]
<1>1. n \in Nat /\ \A i \in 1..n : s[i] \in Record
  OBVIOUS
<1> HIDE DEF n
<1>2. PICK g : Takes(g, n, run, s) /\ OfRun(run, s) = g[n]
  BY <1>1, OfRunTakes DEF n
<1> DEFINE T == {k \in 0..n : ~ Kept(g[k], k)}
<1>3. T = {}
  <2> SUFFICES ASSUME T # {} PROVE FALSE
    OBVIOUS
  <2>1. PICK k \in T : \A i \in T : k <= i
    <3>1. T \in SUBSET Nat
      BY <1>1
    <3> HIDE DEF T
    <3> QED BY <3>1, LeastOf
  <2>2. k # 0
    <3>1. 0 \in 0..n /\ 1..0 = {}
      BY <1>1
    <3>2. g[0] = << >>
      BY <1>2, <3>1 DEF Takes
    <3>3. Kept(g[0], 0)
      BY <3>1, <3>2
    <3> QED BY <2>1, <3>3
  <2>3. k \in 1..n /\ k - 1 \in 0..n /\ k - 1 \notin T /\ k \in 0..n
    BY <1>1, <2>1, <2>2
  <2>4. Kept(g[k-1], k - 1)
    BY <2>3
  <2>5. g[k] = IF s[k].body.run = run THEN Append(g[k-1], s[k]) ELSE g[k-1]
    BY <1>2, <2>2, <2>3 DEF Takes
  <2>6. s[k] \in Record /\ \A i \in 1..k : i = k \/ i \in 1..(k - 1)
    BY <1>1, <2>3
  <2>7. CASE s[k].body.run = run
    <3> DEFINE f == g[k-1]
    <3>1. f \in Seq(Record) /\ g[k] = Append(f, s[k])
      BY <2>4, <2>5, <2>7
    <3> HIDE DEF f
    <3>2. /\ Append(f, s[k]) \in Seq(Record) /\ Len(Append(f, s[k])) = Len(f) + 1
          /\ Len(f) \in Nat
          /\ \A i \in 1..Len(f) : Append(f, s[k])[i] = f[i]
          /\ Append(f, s[k])[Len(f) + 1] = s[k]
      BY <2>6, <3>1, Appended
    <3>3. ASSUME NEW i \in 1..k, s[i].body.run = run
          PROVE  \E j \in 1..Len(g[k]) : g[k][j] = s[i]
      <4>1. CASE i = k
        <5>1. Len(f) + 1 \in 1..Len(g[k]) /\ g[k][Len(f) + 1] = s[i]
          BY <3>1, <3>2, <4>1
        <5> QED BY <5>1
      <4>2. CASE i \in 1..(k - 1)
        <5>1. PICK j \in 1..Len(f) : f[j] = s[i]
          BY <2>4, <3>3, <4>2 DEF f
        <5>2. j \in 1..Len(g[k]) /\ g[k][j] = s[i]
          BY <3>1, <3>2, <5>1
        <5> QED BY <5>2
      <4> QED BY <2>6, <4>1, <4>2
    <3> QED BY <2>1, <3>1, <3>2, <3>3
  <2>8. CASE s[k].body.run # run
    <3>1. g[k] = g[k-1]
      BY <2>5, <2>8
    <3>2. Kept(g[k], k)
      BY <2>4, <2>6, <2>8, <3>1
    <3> QED BY <2>1, <3>2
  <2> QED BY <2>7, <2>8
<1>4. Kept(g[n], n)
  <2>1. n \in 0..n
    BY <1>1
  <2> QED BY <1>3, <2>1
<1> QED BY <1>2, <1>4 DEF n

-----------------------------------------------------------------------------
(* Chains *)

LEMMA LastOf ==
  ASSUME NEW chain \in Seq(Record), chain # << >>
  PROVE  Len(chain) \in 1..Len(chain) /\ Len(chain) \in Nat
OBVIOUS

LEMMA ChainLonger ==
  ASSUME NEW chain \in Seq(Record), VerifyChain(chain),
         NEW r \in Record, VerifyIntegrity(r), r.prev = HeadHash(chain)
  PROVE  VerifyChain(Append(chain, r))
<1> DEFINE longer == Append(chain, r)
           n == Len(chain)
<1>1. /\ n \in Nat /\ Len(longer) = n + 1 /\ longer[n+1] = r
      /\ \A i \in 1..n : longer[i] = chain[i]
  BY Appended
<1>2. r.prev = IF n = 0 THEN Genesis ELSE chain[n].hash
  <2>1. chain = << >> <=> n = 0
    OBVIOUS
  <2> QED BY <2>1 DEF HeadHash
<1> HIDE DEF longer
<1>3. ASSUME NEW i \in 1..(n + 1)
      PROVE  /\ VerifyIntegrity(longer[i])
             /\ longer[i].prev = IF i = 1 THEN Genesis ELSE longer[i-1].hash
  <2>1. CASE i = n + 1
    <3>1. i = 1 <=> n = 0
      BY <1>1, <2>1
    <3>2. n # 0 => longer[i-1] = chain[n]
      <4>1. n # 0 => i - 1 = n /\ n \in 1..n
        BY <1>1, <2>1
      <4> QED BY <1>1, <4>1
    <3> QED BY <1>1, <1>2, <2>1, <3>1, <3>2
  <2>2. CASE i \in 1..n
    <3>1. i # 1 => i - 1 \in 1..n
      BY <1>1, <2>2
    <3>2. VerifyIntegrity(chain[i]) /\ chain[i].prev = IF i = 1 THEN Genesis ELSE chain[i-1].hash
      BY <2>2 DEF VerifyChain
    <3> QED BY <1>1, <2>2, <3>1, <3>2
  <2> QED BY <1>1, <2>1, <2>2
<1> QED BY <1>1, <1>3 DEF VerifyChain, longer

\* The links that are checked make each digest commit to all that came before.
LEMMA VerifiedCommits ==
  ASSUME NEW chain \in Seq(Record), VerifyChain(chain)
  PROVE  HashesCommit(chain)
<1> DEFINE bodies(k) == [j \in 1..k |-> chain[j].body]
           T == {k \in 1..Len(chain) : chain[k].hash # bodies(k)}
<1> SUFFICES ASSUME T # {} PROVE FALSE
  BY DEF HashesCommit
<1>0. Len(chain) \in Nat /\ \A i \in 1..Len(chain) : chain[i] \in Record
  OBVIOUS
<1>1. PICK k \in T : \A i \in T : k <= i
  <2>1. T \in SUBSET Nat
    BY <1>0
  <2> HIDE DEF T
  <2> QED BY <2>1, LeastOf
<1>2. /\ k \in 1..Len(chain) /\ k \in Nat \ {0} /\ chain[k].hash # bodies(k)
      /\ k # 1 => k - 1 \in 1..Len(chain) /\ k - 1 \notin T
  BY <1>0, <1>1
<1>3. /\ chain[k].hash = Append(chain[k].prev, chain[k].body)
      /\ chain[k].prev = IF k = 1 THEN Genesis ELSE chain[k-1].hash
  BY <1>2 DEF VerifyChain, VerifyIntegrity, RecordHash
<1>4. chain[k].prev = bodies(k - 1)
  <2>1. CASE k = 1
    <3>1. chain[k].prev = << >> /\ k - 1 = 0
      BY <1>3, <2>1 DEF Genesis
    <3>2. bodies(0) = << >>
      OBVIOUS
    <3> QED BY <3>1, <3>2
  <2>2. CASE k # 1
    BY <1>2, <1>3, <2>2
  <2> QED BY <2>1, <2>2
<1>5. Append(bodies(k - 1), chain[k].body) = bodies(k)
  <2>1. \A j \in 1..k : j \in 1..Len(chain) /\ chain[j].body \in Bodies
    BY <1>0, <1>2 DEF Record
  <2>2. k - 1 \in Nat /\ k \in 1..k /\ \A j \in 1..(k - 1) : j \in 1..k
    BY <1>2
  <2> DEFINE a == bodies(k - 1)
             b == bodies(k)
  <2>3. a \in Seq(Bodies) /\ Len(a) = k - 1 /\ \A j \in 1..(k - 1) : a[j] = chain[j].body
    BY <2>1, <2>2
  <2>4. b \in Seq(Bodies) /\ Len(b) = k /\ \A j \in 1..k : b[j] = chain[j].body
    BY <1>2, <2>1
  <2> HIDE DEF a, b
  <2> DEFINE c == Append(a, chain[k].body)
  <2>5. /\ c \in Seq(Bodies) /\ Len(c) = k /\ c[k] = chain[k].body
        /\ \A j \in 1..(k - 1) : c[j] = a[j]
    <3>1. chain[k].body \in Bodies /\ (k - 1) + 1 = k
      BY <1>2, <2>1, <2>2
    <3> QED BY <2>3, <3>1, Appended
  <2> HIDE DEF c
  <2>6. \A j \in 1..k : c[j] = b[j]
    <3>1. \A j \in 1..k : j = k \/ j \in 1..(k - 1)
      BY <1>2
    <3> QED BY <2>3, <2>4, <2>5, <3>1
  <2>7. c = b
    BY <2>4, <2>5, <2>6, SeqEqual
  <2> QED BY <2>7 DEF a, b, c
<1> QED BY <1>2, <1>3, <1>4, <1>5

-----------------------------------------------------------------------------
(* Files that load *)

LEMMA SaneEmpty == Sane(<< >>)
<1>1. << >> \in Seq(Record) /\ Len(<< >>) = 0 /\ 1..0 = {}
  OBVIOUS
<1>2. \A k \in 0..0 : SubSeq(<< >>, 1, k) = << >>
  OBVIOUS
<1>3. VerifyChain(<< >>)
  BY DEF VerifyChain
<1> QED BY <1>1, <1>2, <1>3, OfRunEmpty DEF Sane

LEMMA SanePrefix ==
  ASSUME NEW s, Sane(s), NEW k \in 0..Len(s)
  PROVE  Sane(SubSeq(s, 1, k))
<1> DEFINE a == SubSeq(s, 1, k)
<1>0. s \in Seq(Record) /\ Len(s) \in Nat
  BY DEF Sane
<1>1. /\ a \in Seq(Record) /\ Len(a) = k /\ \A i \in 1..k : a[i] = s[i]
      /\ \A j \in 0..k : SubSeq(a, 1, j) = SubSeq(s, 1, j)
  BY <1>0, Cut
<1> HIDE DEF a
<1>2. \A i \in 1..k : i \in 1..Len(s)
  BY <1>0
<1>3. \A i \in 0..k : i \in 0..Len(s)
  BY <1>0
<1>4. \A i, j \in 1..k : a[i].body.id = a[j].body.id => i = j
  BY <1>1, <1>2 DEF Sane
<1>5. \A j \in 0..k, run \in RunIDs : VerifyChain(OfRun(run, SubSeq(a, 1, j)))
  BY <1>1, <1>3 DEF Sane
<1>6. Sane(a)
  BY <1>1, <1>4, <1>5 DEF Sane
<1> QED BY <1>6 DEF a

\* The records of the runs of sane lines verify.
LEMMA SaneVerifies ==
  ASSUME NEW s, Sane(s), NEW run \in RunIDs
  PROVE  VerifyChain(OfRun(run, s))
<1>0. s \in Seq(Record) /\ Len(s) \in Nat /\ Len(s) \in 0..Len(s)
  BY DEF Sane
<1>1. SubSeq(s, 1, Len(s)) = s
  <2>1. /\ SubSeq(s, 1, Len(s)) \in Seq(Record) /\ Len(SubSeq(s, 1, Len(s))) = Len(s)
        /\ \A i \in 1..Len(s) : SubSeq(s, 1, Len(s))[i] = s[i]
    BY <1>0, Cut
  <2> QED BY <1>0, <2>1, SeqEqual
<1>2. VerifyChain(OfRun(run, SubSeq(s, 1, Len(s))))
  BY <1>0 DEF Sane
<1> QED BY <1>1, <1>2

\* A record that extends its run under a new id.
LEMMA SaneAppend ==
  ASSUME NEW s, Sane(s), NEW r \in Record, VerifyIntegrity(r),
         r.prev = HeadHash(OfRun(r.body.run, s)), r.body.run \in RunIDs,
         \A i \in 1..Len(s) : s[i].body.id # r.body.id
  PROVE  Sane(Append(s, r))
<1> DEFINE t == Append(s, r)
           n == Len(s)
<1>0. s \in Seq(Record) /\ n \in Nat
  BY DEF Sane
<1>1. /\ t \in Seq(Record) /\ Len(t) = n + 1 /\ t[n+1] = r
      /\ \A i \in 1..n : t[i] = s[i]
  BY <1>0, Appended
<1>2. /\ \A k \in 0..n : SubSeq(t, 1, k) = SubSeq(s, 1, k)
      /\ SubSeq(t, 1, n + 1) = t
  BY <1>0, CutLonger
<1>3. ASSUME NEW run \in RunIDs PROVE VerifyChain(OfRun(run, t))
  <2>1. VerifyChain(OfRun(run, s))
    BY SaneVerifies
  <2>2. CASE r.body.run = run
    <3>1. OfRun(run, t) = Append(OfRun(run, s), r)
      BY <1>0, <2>2, OfRunAppend
    <3>2. OfRun(run, s) \in Seq(Record)
      BY <1>0, OfRunKeeps
    <3>3. VerifyChain(Append(OfRun(run, s), r))
      BY <2>1, <2>2, <3>2, ChainLonger
    <3> QED BY <3>1, <3>3
  <2>3. CASE r.body.run # run
    <3>1. OfRun(run, t) = OfRun(run, s)
      BY <1>0, <2>3, OfRunAppend
    <3> QED BY <2>1, <3>1
  <2> QED BY <2>2, <2>3
<1> HIDE DEF t
<1>4. \A i \in 1..(n + 1) : i = n + 1 \/ i \in 1..n
  BY <1>0
<1>5. \A i, j \in 1..(n + 1) : t[i].body.id = t[j].body.id => i = j
  <2>1. \A i, j \in 1..n : s[i].body.id = s[j].body.id => i = j
    BY DEF Sane
  <2> QED BY <1>1, <1>4, <2>1
<1>6. \A k \in 0..(n + 1), run \in RunIDs : VerifyChain(OfRun(run, SubSeq(t, 1, k)))
  <2>1. \A k \in 0..(n + 1) : k = n + 1 \/ k \in 0..n
    BY <1>0
  <2>2. \A k \in 0..n, run \in RunIDs : VerifyChain(OfRun(run, SubSeq(s, 1, k)))
    BY DEF Sane
  <2> QED BY <1>2, <1>3, <2>1, <2>2
<1>7. Sane(t)
  BY <1>1, <1>5, <1>6 DEF Sane
<1> QED BY <1>7 DEF t

LEMMA SaneLoads ==
  ASSUME Sane(file.lines), file.tail = NoText,
         \A i \in 1..Len(Texts(file)) : ~ TooLong(Texts(file)[i])
  PROVE  Loadable(file)
<1>1. Texts(file) = file.lines
  BY DEF Texts
<1>2. \A i \in 1..Len(file.lines) : file.lines[i] # Garbled
  <2>1. \A i \in 1..Len(file.lines) : file.lines[i] \in Record
    BY DEF Sane
  <2> QED BY <2>1, FileAssumption
<1>3. \A run \in RunIDs : VerifyChain(OfRun(run, file.lines))
  BY SaneVerifies
<1>4. \A i \in 1..Len(file.lines) : Readable(file.lines[i])
  BY <1>1, <1>2 DEF Readable
<1> QED BY <1>1, <1>3, <1>4 DEF Loadable, Sane

\* What a loaded file gives a run: a verified chain, with every line of it.
LEMMA LoadedRuns ==
  ASSUME FileTypeOK, Loadable(file), NEW run \in RunIDs
  PROVE  /\ Texts(file) \in Seq(Record)
         /\ OfRun(run, Texts(file)) \in Seq(Record)
         /\ VerifyChain(OfRun(run, Texts(file)))
         /\ HashesCommit(OfRun(run, Texts(file)))
         /\ \A i \in 1..Len(file.lines) : file.lines[i].body.run = run =>
              \E j \in 1..Len(OfRun(run, Texts(file))) :
                OfRun(run, Texts(file))[j] = file.lines[i]
<1> DEFINE texts == Texts(file)
<1>1. /\ file.lines \in Seq(Record \cup {Garbled})
      /\ file.tail \in Record \cup {Garbled, NoText}
  BY DEF FileTypeOK
<1>2. /\ texts \in Seq(Record \cup {Garbled})
      /\ Len(file.lines) <= Len(texts) /\ Len(file.lines) \in Nat /\ Len(texts) \in Nat
      /\ \A i \in 1..Len(file.lines) : texts[i] = file.lines[i]
  <2>1. CASE file.tail = NoText
    <3>1. texts = file.lines
      BY <2>1 DEF Texts
    <3> QED BY <1>1, <3>1
  <2>2. CASE file.tail # NoText
    <3>1. texts = Append(file.lines, file.tail)
      BY <2>2 DEF Texts
    <3>2. file.tail \in Record \cup {Garbled}
      BY <1>1, <2>2
    <3> HIDE DEF texts
    <3> QED BY <1>1, <3>1, <3>2, Appended
  <2> QED BY <2>1, <2>2
<1>3. \A i \in 1..Len(texts) : texts[i] # Garbled
  BY DEF Loadable, Readable
<1>4. VerifyChain(OfRun(run, texts))
  BY DEF Loadable
<1> HIDE DEF texts
<1>5. texts \in Seq(Record)
  BY <1>2, <1>3
<1>6. /\ OfRun(run, texts) \in Seq(Record)
      /\ \A i \in 1..Len(texts) : texts[i].body.run = run =>
           \E j \in 1..Len(OfRun(run, texts)) : OfRun(run, texts)[j] = texts[i]
  BY <1>5, OfRunKeeps
<1>7. HashesCommit(OfRun(run, texts))
  BY <1>4, <1>6, VerifiedCommits
<1>8. \A i \in 1..Len(file.lines) : i \in 1..Len(texts)
  BY <1>2
<1>9. \A i \in 1..Len(file.lines) : file.lines[i].body.run = run =>
        \E j \in 1..Len(OfRun(run, texts)) : OfRun(run, texts)[j] = file.lines[i]
  BY <1>2, <1>6, <1>8
<1> QED BY <1>4, <1>5, <1>6, <1>7, <1>9 DEF texts

-----------------------------------------------------------------------------
(* The invariant *)

LEMMA RunOfRecord ==
  ASSUME NEW r \in Record
  PROVE  /\ r.body \in Bodies /\ r.body.run \in RunIDs
         /\ r # Garbled /\ r # NoText /\ r # Idle
BY FileAssumption DEF Record

LEMMA FileStarts == FileInit => FileInv
<1> SUFFICES ASSUME FileInit PROVE FileInv
  OBVIOUS
<1>1. /\ file = [lines |-> << >>, tail |-> NoText] /\ durable = file
      /\ state = "down" /\ appending = Idle /\ acked = {} /\ missed = {}
      /\ faulted = FALSE /\ crashes = 0
      /\ runs = [run \in RunIDs |-> << >>]
  BY DEF FileInit, EmptyFile
<1>2. << >> \in Seq(Record) /\ << >> \in Seq(Record \cup {Garbled}) /\ Len(<< >>) = 0
  OBVIOUS
<1>3. FileTypeOK
  <2>1. MaxCrashes \in Nat
    BY FileAssumption
  <2>2. runs \in [RunIDs -> Seq(Record)] /\ crashes \in 0..MaxCrashes
    BY <1>1, <1>2, <2>1
  <2>3. /\ file = [lines |-> << >>, tail |-> NoText] /\ durable = file
        /\ acked \subseteq Record /\ missed \subseteq acked
        /\ faulted \in BOOLEAN /\ appending \in Record \cup {Idle}
        /\ state \in {"up", "write", "sync", "down", "refused"}
    BY <1>1
  <2> QED BY <1>2, <2>2, <2>3 DEF FileTypeOK
<1>4. DurablePrefix /\ AckedFiled /\ InProgress /\ RefusesOnlyFaults /\ EmptyIndex
  BY <1>1, <1>2 DEF DurablePrefix, AckedFiled, InProgress, RefusesOnlyFaults, EmptyIndex, Up
<1>5. Intact
  <2>1. Ahead = << >> /\ file.tail = NoText
    BY <1>1 DEF Ahead
  <2> QED BY <1>1, <2>1, SaneEmpty DEF Intact, Up
<1>6. AckedKept
  BY <1>1 DEF AckedKept, Up
<1> QED BY <1>3, <1>4, <1>5, <1>6 DEF FileInv

LEMMA AppendMemKeeps == FileInv /\ AppendMem => FileInv'
<1> SUFFICES ASSUME FileInv, AppendMem PROVE FileInv'
  OBVIOUS
<1>0. /\ FileTypeOK /\ DurablePrefix /\ AckedFiled /\ AckedKept /\ (~ faulted => Intact)
      /\ state = "up" /\ state' = "write"
      /\ UNCHANGED <<file, durable, acked, missed, faulted, crashes>>
  BY DEF FileInv, AppendMem
<1>1. PICK body \in Bodies :
        LET r == Seal(HeadHash(runs[body.run]), body)
        IN  /\ Mem!Admissible(r)
            /\ runs' = [runs EXCEPT ![body.run] = Append(@, r)]
            /\ appending' = r
  BY DEF AppendMem
<1>r. PICK r : r = Seal(HeadHash(runs[body.run]), body)
  OBVIOUS
<1> DEFINE R == body.run
<1>2. R \in RunIDs /\ runs[R] \in Seq(Record) /\ \A run \in RunIDs : runs[run] \in Seq(Record)
  BY <1>0, FileAssumption DEF FileTypeOK
<1>3. r \in Record /\ VerifyIntegrity(r) /\ r.body = body /\ r.prev = HeadHash(runs[R])
  <2>1. HeadHash(runs[R]) \in Hashes
    BY <1>2, HeadHashType
  <2>2. RecordHash(HeadHash(runs[R]), body) \in Hashes
    BY <2>1 DEF RecordHash, Hashes
  <2> QED BY <1>r, <2>1, <2>2 DEF Seal, Record, VerifyIntegrity
<1>4. \A run \in RunIDs : \A i \in 1..Len(runs[run]) : runs[run][i].body.id # r.body.id
  BY <1>1, <1>r DEF Mem!Admissible
<1>5. /\ appending' = r
      /\ runs'[R] = Append(runs[R], r)
      /\ \A run \in RunIDs \ {R} : runs'[run] = runs[run]
      /\ runs' = [runs EXCEPT ![R] = Append(runs[R], r)]
  BY <1>0, <1>1, <1>2, <1>r DEF FileTypeOK
<1> HIDE DEF R
<1>6. r.body.run = R
  BY <1>3 DEF R
<1>7. /\ Append(runs[R], r) \in Seq(Record) /\ Len(Append(runs[R], r)) = Len(runs[R]) + 1
      /\ Len(runs[R]) \in Nat /\ Append(runs[R], r)[Len(runs[R]) + 1] = r
      /\ \A i \in 1..Len(runs[R]) : Append(runs[R], r)[i] = runs[R][i]
  BY <1>2, <1>3, Appended
<1>8. FileTypeOK'
  <2>1. runs' \in [RunIDs -> Seq(Record)]
    BY <1>0, <1>2, <1>5, <1>7 DEF FileTypeOK
  <2> QED BY <1>0, <1>3, <1>5, <2>1 DEF FileTypeOK
<1>9. \A x \in Record : Indexed(x) => Indexed(x)'
  <2> SUFFICES ASSUME NEW x \in Record, Indexed(x) PROVE Indexed(x)'
    OBVIOUS
  <2>1. PICK i \in 1..Len(runs[x.body.run]) : runs[x.body.run][i] = x
    BY DEF Indexed
  <2>2. CASE x.body.run = R
    <3>1. i \in 1..Len(runs'[R]) /\ runs'[R][i] = x
      BY <1>5, <1>7, <2>1, <2>2
    <3> QED BY <2>2, <3>1 DEF Indexed
  <2>3. CASE x.body.run # R
    <3>1. runs'[x.body.run] = runs[x.body.run]
      BY <1>5, <2>3, RunOfRecord
    <3> QED BY <2>1, <3>1 DEF Indexed
  <2> QED BY <2>2, <2>3
<1>10. Indexed(r)'
  <2>1. Len(runs[R]) + 1 \in 1..Len(runs'[R]) /\ runs'[R][Len(runs[R]) + 1] = r
    BY <1>5, <1>7
  <2> QED BY <1>6, <2>1 DEF Indexed
<1>11. AckedKept'
  <2>1. ASSUME NEW run \in RunIDs PROVE VerifyChain(runs'[run]) /\ HashesCommit(runs'[run])
    <3>1. VerifyChain(runs[run]) /\ HashesCommit(runs[run])
      BY <1>0 DEF AckedKept, Up
    <3>2. CASE run = R
      <4>1. VerifyChain(Append(runs[R], r))
        BY <1>2, <1>3, <3>1, <3>2, ChainLonger
      <4>2. HashesCommit(Append(runs[R], r))
        BY <1>7, <4>1, VerifiedCommits
      <4> QED BY <1>5, <3>2, <4>1, <4>2
    <3>3. CASE run # R
      BY <1>5, <3>1, <3>3
    <3> QED BY <3>2, <3>3
  <2>2. \A x \in acked : Indexed(x)' \/ x \in missed
    BY <1>0, <1>9 DEF AckedKept, Up, FileTypeOK
  <2> QED BY <1>0, <2>1, <2>2 DEF AckedKept
<1>12. (~ faulted => Intact)'
  <2> SUFFICES ASSUME ~ faulted PROVE Intact'
    BY <1>0
  <2>1. /\ file.tail = NoText /\ Sane(file.lines)
        /\ \A run \in RunIDs : runs[run] = OfRun(run, file.lines)
    BY <1>0 DEF Intact, Ahead, Up
  <2>2. Ahead' = Append(file.lines, r)
    BY <1>0, <1>5 DEF Ahead
  <2>3. \A i \in 1..Len(file.lines) : file.lines[i].body.id # r.body.id
    <3> SUFFICES ASSUME NEW i \in 1..Len(file.lines) PROVE file.lines[i].body.id # r.body.id
      OBVIOUS
    <3>1. file.lines \in Seq(Record) /\ file.lines[i] \in Record
      BY <2>1 DEF Sane
    <3> DEFINE run == file.lines[i].body.run
    <3>2. run \in RunIDs
      BY <3>1, RunOfRecord
    <3>3. PICK j \in 1..Len(OfRun(run, file.lines)) : OfRun(run, file.lines)[j] = file.lines[i]
      BY <3>1, OfRunKeeps
    <3>4. j \in 1..Len(runs[run]) /\ runs[run][j] = file.lines[i]
      BY <2>1, <3>2, <3>3
    <3> HIDE DEF run
    <3> QED BY <1>4, <3>2, <3>4
  <2>4. r.prev = HeadHash(OfRun(r.body.run, file.lines)) /\ r.body.run \in RunIDs
    BY <1>2, <1>3, <1>6, <2>1
  <2>5. Sane(Append(file.lines, r))
    BY <1>3, <2>1, <2>3, <2>4, SaneAppend
  <2>6. ASSUME NEW run \in RunIDs PROVE runs'[run] = OfRun(run, Append(file.lines, r))
    <3>1. file.lines \in Seq(Record)
      BY <2>1 DEF Sane
    <3>2. CASE run = R
      <4>1. OfRun(run, Append(file.lines, r)) = Append(OfRun(run, file.lines), r)
        BY <1>3, <1>6, <3>1, <3>2, OfRunAppend
      <4> QED BY <1>5, <2>1, <3>2, <4>1
    <3>3. CASE run # R
      <4>1. OfRun(run, Append(file.lines, r)) = OfRun(run, file.lines)
        BY <1>3, <1>6, <3>1, <3>3, OfRunAppend
      <4> QED BY <1>5, <2>1, <3>3, <4>1
    <3> QED BY <3>2, <3>3
  <2> QED BY <1>0, <2>1, <2>2, <2>5, <2>6 DEF Intact
<1>13. (DurablePrefix /\ AckedFiled /\ InProgress /\ RefusesOnlyFaults /\ EmptyIndex)'
  BY <1>0, <1>3, <1>5, <1>10 DEF DurablePrefix, AckedFiled, InProgress, RefusesOnlyFaults, EmptyIndex, Up
<1> QED BY <1>8, <1>11, <1>12, <1>13 DEF FileInv

\* The steps that leave memory, what was synced and what was acknowledged.
LEMMA WriteKeeps == FileInv /\ Write => FileInv'
<1> SUFFICES ASSUME FileInv, Write PROVE FileInv'
  OBVIOUS
<1>0. /\ FileTypeOK /\ DurablePrefix /\ AckedFiled /\ AckedKept /\ InProgress /\ (~ faulted => Intact)
      /\ state = "write" /\ state' = "sync" /\ file' = Written(file, appending)
      /\ UNCHANGED <<runs, durable, appending, acked, missed, faulted, crashes>>
  BY DEF FileInv, Write
<1>1. appending \in Record /\ Indexed(appending)
  BY <1>0 DEF InProgress
<1> DEFINE n == Len(file.lines)
           x == IF file.tail = NoText THEN appending ELSE Garbled
<1>2. file.lines \in Seq(Record \cup {Garbled}) /\ x \in Record \cup {Garbled} /\ n \in Nat
  BY <1>0, <1>1 DEF FileTypeOK
<1>3. file'.lines = Append(file.lines, x) /\ file'.tail = NoText
  BY <1>0 DEF Written
<1> HIDE DEF x
<1>4. /\ file'.lines \in Seq(Record \cup {Garbled}) /\ Len(file'.lines) = n + 1
      /\ file'.lines[n+1] = x /\ \A i \in 1..n : file'.lines[i] = file.lines[i]
  BY <1>2, <1>3, Appended
<1>5. FileTypeOK'
  <2>1. file' \in [lines : Seq(Record \cup {Garbled}), tail : Record \cup {Garbled, NoText}]
    BY <1>0, <1>3, <1>4 DEF Written
  <2> QED BY <1>0, <2>1 DEF FileTypeOK
<1>6. DurablePrefix'
  <2>1. durable.lines \in Seq(Record \cup {Garbled}) /\ Len(durable.lines) \in Nat
    BY <1>0 DEF FileTypeOK
  <2>2. Len(durable.lines) <= n /\ \A i \in 1..Len(durable.lines) : durable.lines[i] = file.lines[i]
    BY <1>0 DEF DurablePrefix
  <2>3. \A i \in 1..Len(durable.lines) : i \in 1..n
    BY <1>2, <2>1, <2>2
  <2> HIDE DEF n
  <2>4. Len(durable.lines) <= Len(file'.lines)
    BY <1>2, <1>4, <2>1, <2>2 DEF n
  <2> QED BY <1>0, <1>4, <2>2, <2>3, <2>4 DEF DurablePrefix
<1>7. InProgress'
  <2>1. n + 1 \in 1..Len(file'.lines) /\ file'.lines[n+1] \in {appending, Garbled}
    BY <1>2, <1>4 DEF x
  <2>2. Indexed(appending)'
    BY <1>0, <1>1 DEF Indexed
  <2> QED BY <1>0, <1>1, <2>1, <2>2 DEF InProgress
<1>8. (~ faulted => Intact)'
  <2> SUFFICES ASSUME ~ faulted PROVE Intact'
    BY <1>0
  <2>1. /\ file.tail = NoText /\ Sane(Ahead)
        /\ \A run \in RunIDs : runs[run] = OfRun(run, Ahead)
    BY <1>0 DEF Intact, Up
  <2>2. Ahead' = Ahead
    BY <1>0, <1>3, <2>1 DEF Ahead, x
  <2> HIDE DEF n
  <2> QED BY <1>0, <1>3, <2>1, <2>2 DEF Intact
<1>9. AckedKept'
  BY <1>0 DEF AckedKept, Up, Indexed
<1>10. (AckedFiled /\ RefusesOnlyFaults /\ EmptyIndex)'
  BY <1>0 DEF AckedFiled, RefusesOnlyFaults, EmptyIndex, Up
<1> QED BY <1>5, <1>6, <1>7, <1>8, <1>9, <1>10 DEF FileInv

LEMMA WriteFailsKeeps == FileInv /\ WriteFails => FileInv'
<1> SUFFICES ASSUME FileInv, WriteFails PROVE FileInv'
  OBVIOUS
<1>0. /\ FileTypeOK /\ DurablePrefix /\ AckedFiled /\ AckedKept /\ InProgress
      /\ state = "write" /\ state' = "up" /\ file' \in CutShort(file, appending)
      /\ appending' = Idle /\ faulted' = TRUE
      /\ UNCHANGED <<runs, durable, acked, missed, crashes>>
  BY DEF FileInv, WriteFails
<1>1. appending \in Record
  BY <1>0 DEF InProgress
<1>2. file'.lines = file.lines /\ file'.tail \in Record \cup {Garbled, NoText}
  BY <1>0, <1>1 DEF CutShort, FileTypeOK
<1>3. FileTypeOK'
  <2>1. file' \in [lines : Seq(Record \cup {Garbled}), tail : Record \cup {Garbled, NoText}]
    BY <1>0, <1>1 DEF CutShort, FileTypeOK
  <2> QED BY <1>0, <2>1 DEF FileTypeOK
<1>4. AckedKept'
  BY <1>0 DEF AckedKept, Up, Indexed
<1>5. DurablePrefix'
  BY <1>0, <1>2 DEF DurablePrefix
<1>6. (AckedFiled /\ InProgress /\ RefusesOnlyFaults /\ EmptyIndex)'
  BY <1>0 DEF AckedFiled, InProgress, RefusesOnlyFaults, EmptyIndex, Up
<1> QED BY <1>0, <1>3, <1>4, <1>5, <1>6 DEF FileInv

LEMMA SyncKeeps == FileInv /\ (Sync \/ SyncFails) => FileInv'
<1> SUFFICES ASSUME FileInv, Sync \/ SyncFails PROVE FileInv'
  OBVIOUS
<1>0. /\ FileTypeOK /\ DurablePrefix /\ AckedFiled /\ AckedKept /\ InProgress /\ (~ faulted => Intact)
      /\ state = "sync" /\ state' = "up" /\ appending' = Idle
      /\ UNCHANGED <<runs, file, missed, faulted, crashes>>
      /\ \/ durable' = file /\ acked' = acked \cup {appending}
         \/ UNCHANGED <<durable, acked>>
  BY DEF FileInv, Sync, SyncFails
<1>1. /\ appending \in Record /\ Indexed(appending)
      /\ \E i \in 1..Len(file.lines) : file.lines[i] \in {appending, Garbled}
  BY <1>0 DEF InProgress
<1>2. FileTypeOK'
  BY <1>0, <1>1 DEF FileTypeOK
<1>3. AckedKept'
  BY <1>0, <1>1 DEF AckedKept, Up, Indexed
<1>4. Len(durable.lines) \in Nat /\ Len(file.lines) \in Nat
  BY <1>0 DEF FileTypeOK
<1>5. DurablePrefix'
  BY <1>0, <1>4 DEF DurablePrefix
<1>6. AckedFiled'
  <2>1. CASE durable' = file /\ acked' = acked \cup {appending}
    <3>1. ASSUME NEW r \in acked
          PROVE  \E i \in 1..Len(file.lines) : file.lines[i] \in {r, Garbled}
      <4>1. PICK i \in 1..Len(durable.lines) : durable.lines[i] \in {r, Garbled}
        BY <1>0 DEF AckedFiled
      <4>2. i \in 1..Len(file.lines) /\ file.lines[i] = durable.lines[i]
        BY <1>0, <1>4 DEF DurablePrefix
      <4> QED BY <4>1, <4>2
    <3> QED BY <1>1, <2>1, <3>1 DEF AckedFiled
  <2>2. CASE UNCHANGED <<durable, acked>>
    BY <1>0, <2>2 DEF AckedFiled
  <2> QED BY <1>0, <2>1, <2>2
<1>7. (~ faulted => Intact)'
  BY <1>0 DEF Intact, Ahead, Up
<1>8. (InProgress /\ RefusesOnlyFaults /\ EmptyIndex)'
  BY <1>0 DEF InProgress, RefusesOnlyFaults, EmptyIndex, Up
<1> QED BY <1>2, <1>3, <1>5, <1>6, <1>7, <1>8 DEF FileInv

\* What a crash leaves begins with what was synced, and, if no line is cut,
\* is a prefix of the lines that were written.
LEMMA CrashLeaves ==
  ASSUME FileTypeOK, DurablePrefix, state = "write" => appending \in Record,
         NEW f, f \in Survivors(file, durable)
                        \cup (IF state = "write" THEN CutShort(file, appending) ELSE {})
  PROVE  /\ f \in [lines : Seq(Record \cup {Garbled}), tail : Record \cup {Garbled, NoText}]
         /\ \E k \in 0..Len(file.lines) :
              Len(durable.lines) <= k /\ f.lines = SubSeq(file.lines, 1, k)
<1> DEFINE S == Record \cup {Garbled}
           n == Len(file.lines)
<1>1. /\ file \in [lines : Seq(S), tail : S \cup {NoText}]
      /\ durable \in [lines : Seq(S), tail : S \cup {NoText}]
  BY DEF FileTypeOK
<1>2. /\ file.lines \in Seq(S) /\ n \in Nat /\ Len(durable.lines) \in Nat
      /\ Len(durable.lines) <= n /\ file.tail \in S \cup {NoText} /\ durable.tail \in S \cup {NoText}
  BY <1>1 DEF DurablePrefix
<1>3. CASE f \in Survivors(file, durable)
  <2> DEFINE tails(k) ==
        {IF k < n THEN file.lines[k+1] ELSE file.tail, Garbled, NoText, durable.tail}
  <2>1. PICK k \in Len(durable.lines)..n : \E t \in tails(k) :
          f = [lines |-> SubSeq(file.lines, 1, k), tail |-> t]
    BY <1>3 DEF Survivors
  <2>t. PICK t \in tails(k) : f = [lines |-> SubSeq(file.lines, 1, k), tail |-> t]
    BY <2>1
  <2>2. k \in 0..n /\ Len(durable.lines) <= k /\ k \in Nat
    BY <1>2, <2>1
  <2>3. SubSeq(file.lines, 1, k) \in Seq(S)
    BY <1>2, <2>2, Cut
  <2>4. t \in S \cup {NoText}
    <3>1. k < n => file.lines[k+1] \in S
      <4>1. k < n => k + 1 \in 1..n
        BY <1>2, <2>2
      <4> QED BY <1>2, <4>1
    <3> QED BY <1>2, <2>t, <3>1
  <2> QED BY <2>t, <2>2, <2>3, <2>4
<1>4. CASE state = "write" /\ f \in CutShort(file, appending)
  <2>1. /\ f \in [lines : Seq(S), tail : S \cup {NoText}]
        /\ f.lines = file.lines
    BY <1>1, <1>4 DEF CutShort
  <2>2. n \in 0..n /\ SubSeq(file.lines, 1, n) = file.lines
    <3>1. /\ n \in 0..n /\ SubSeq(file.lines, 1, n) \in Seq(S)
          /\ Len(SubSeq(file.lines, 1, n)) = n
          /\ \A i \in 1..n : SubSeq(file.lines, 1, n)[i] = file.lines[i]
      BY <1>2, Cut
    <3> QED BY <1>2, <3>1, SeqEqual
  <2> QED BY <1>2, <2>1, <2>2
<1> QED BY <1>3, <1>4

LEMMA CrashKeeps == FileInv /\ Crash => FileInv'
<1> SUFFICES ASSUME FileInv, Crash PROVE FileInv'
  OBVIOUS
<1>0. /\ FileTypeOK /\ DurablePrefix /\ AckedFiled /\ InProgress /\ (~ faulted => Intact)
      /\ state \in {"up", "write", "sync"} /\ state' = "down" /\ appending' = Idle
      /\ file' \in Survivors(file, durable)
                   \cup (IF state = "write" THEN CutShort(file, appending) ELSE {})
      /\ durable' = file' /\ runs' = [run \in RunIDs |-> << >>]
      /\ faulted' = (faulted \/ file'.tail # NoText)
      /\ crashes' = crashes + 1 /\ crashes < MaxCrashes /\ acked' = acked /\ missed' = missed
  BY DEF FileInv, Crash
<1>1. /\ file' \in [lines : Seq(Record \cup {Garbled}), tail : Record \cup {Garbled, NoText}]
      /\ \E k \in 0..Len(file.lines) :
           Len(durable.lines) <= k /\ file'.lines = SubSeq(file.lines, 1, k)
  <2>1. state = "write" => appending \in Record
    BY <1>0 DEF InProgress
  <2> DEFINE f == file'
  <2>2. f \in Survivors(file, durable)
              \cup (IF state = "write" THEN CutShort(file, appending) ELSE {})
    BY <1>0
  <2> HIDE DEF f
  <2>3. /\ f \in [lines : Seq(Record \cup {Garbled}), tail : Record \cup {Garbled, NoText}]
        /\ \E k \in 0..Len(file.lines) :
             Len(durable.lines) <= k /\ f.lines = SubSeq(file.lines, 1, k)
    BY <1>0, <2>1, <2>2, CrashLeaves
  <2> QED BY <2>3 DEF f
<1>2. PICK k \in 0..Len(file.lines) :
        Len(durable.lines) <= k /\ file'.lines = SubSeq(file.lines, 1, k)
  BY <1>1
<1>3. /\ file.lines \in Seq(Record \cup {Garbled}) /\ Len(file.lines) \in Nat
      /\ Len(durable.lines) \in Nat
  BY <1>0 DEF FileTypeOK
<1>4. Len(file'.lines) = k /\ \A i \in 1..k : file'.lines[i] = file.lines[i]
  BY <1>2, <1>3, Cut
<1>5. FileTypeOK'
  <2>1. << >> \in Seq(Record)
    OBVIOUS
  <2>2. runs' \in [RunIDs -> Seq(Record)]
    BY <1>0, <2>1
  <2>3. crashes' \in 0..MaxCrashes
    <3>1. MaxCrashes \in Nat
      BY FileAssumption
    <3> QED BY <1>0, <3>1 DEF FileTypeOK
  <2> QED BY <1>0, <1>1, <2>2, <2>3 DEF FileTypeOK
<1>6. DurablePrefix'
  <2>1. Len(file'.lines) \in Nat
    BY <1>4
  <2> QED BY <1>0, <2>1 DEF DurablePrefix
<1>7. AckedFiled'
  <2> SUFFICES ASSUME NEW r \in acked
               PROVE  \E i \in 1..Len(file'.lines) : file'.lines[i] \in {r, Garbled}
    BY <1>0 DEF AckedFiled
  <2>1. PICK i \in 1..Len(durable.lines) : durable.lines[i] \in {r, Garbled}
    BY <1>0 DEF AckedFiled
  <2>2. i \in 1..k /\ file.lines[i] = durable.lines[i]
    BY <1>0, <1>2, <1>3, <2>1 DEF DurablePrefix
  <2> QED BY <1>4, <2>1, <2>2
<1>8. (~ faulted => Intact)'
  <2> SUFFICES ASSUME ~ faulted, file'.tail = NoText PROVE Intact'
    BY <1>0
  <2>1. Sane(Ahead)
    BY <1>0 DEF Intact
  <2>2. Sane(SubSeq(file.lines, 1, k))
    <3>1. CASE state = "write"
      <4>1. Ahead = Append(file.lines, appending) /\ appending \in Record
        BY <1>0, <3>1 DEF Ahead, InProgress
      <4>2. /\ Len(Ahead) = Len(file.lines) + 1
            /\ \A i \in 1..Len(file.lines) : Ahead[i] = file.lines[i]
        BY <1>3, <4>1, Appended
      <4>3. Ahead \in Seq(Record) /\ k \in 0..Len(Ahead)
        BY <1>2, <1>3, <2>1, <4>2 DEF Sane
      <4>4. Sane(SubSeq(Ahead, 1, k))
        BY <2>1, <4>3, SanePrefix
      <4>5. SubSeq(Ahead, 1, k) = SubSeq(file.lines, 1, k)
        BY <1>2, <1>3, <4>1, CutLonger
      <4> QED BY <4>4, <4>5
    <3>2. CASE state # "write"
      <4>1. Ahead = file.lines
        BY <3>2 DEF Ahead
      <4> QED BY <1>2, <2>1, <4>1, SanePrefix
    <3> QED BY <3>1, <3>2
  <2>3. Sane(file'.lines)
    BY <1>2, <2>2
  <2>4. Ahead' = file'.lines /\ ~ Up'
    BY <1>0 DEF Ahead, Up
  <2>5. Sane(Ahead')
    BY <2>3, <2>4
  <2> QED BY <2>4, <2>5 DEF Intact, Sane
<1>9. (AckedKept /\ InProgress /\ RefusesOnlyFaults /\ EmptyIndex)'
  BY <1>0 DEF AckedKept, Up, InProgress, RefusesOnlyFaults, EmptyIndex
<1> QED BY <1>5, <1>6, <1>7, <1>8, <1>9 DEF FileInv

LEMMA LoadKeeps == FileInv /\ Load => FileInv'
<1> SUFFICES ASSUME FileInv, Load PROVE FileInv'
  OBVIOUS
<1>0. /\ FileTypeOK /\ DurablePrefix /\ AckedFiled /\ (~ faulted => Intact) /\ Loadable(file)
      /\ state = "down" /\ state' = "up"
      /\ runs' = [run \in RunIDs |-> OfRun(run, Texts(file))]
      /\ missed' = {}
      /\ UNCHANGED <<file, durable, appending, acked, faulted, crashes>>
  BY DEF FileInv, Load
<1>1. FileTypeOK'
  <2>1. \A run \in RunIDs : OfRun(run, Texts(file)) \in Seq(Record)
    BY <1>0, LoadedRuns
  <2>2. runs' \in [RunIDs -> Seq(Record)]
    BY <1>0, <2>1
  <2> QED BY <1>0, <2>2 DEF FileTypeOK
<1>2. AckedKept'
  <2>1. \A run \in RunIDs : VerifyChain(runs'[run]) /\ HashesCommit(runs'[run])
    BY <1>0, LoadedRuns
  <2>2. ASSUME NEW r \in acked PROVE Indexed(r)'
    <3>1. r \in Record /\ r.body.run \in RunIDs /\ r # Garbled
      BY <1>0, RunOfRecord DEF FileTypeOK
    <3>2. PICK i \in 1..Len(durable.lines) : durable.lines[i] \in {r, Garbled}
      BY <1>0 DEF AckedFiled
    <3>3. i \in 1..Len(file.lines) /\ file.lines[i] \in {r, Garbled}
      <4>1. Len(durable.lines) \in Nat /\ Len(file.lines) \in Nat
        BY <1>0 DEF FileTypeOK
      <4> QED BY <1>0, <3>2, <4>1 DEF DurablePrefix
    <3>4. file.lines[i] # Garbled
      <4>1. /\ file.lines \in Seq(Record \cup {Garbled})
            /\ file.tail \in Record \cup {Garbled, NoText} /\ Len(file.lines) \in Nat
        BY <1>0 DEF FileTypeOK
      <4>2. i \in 1..Len(Texts(file)) /\ Texts(file)[i] = file.lines[i]
        <5>1. CASE file.tail = NoText
          BY <3>3, <5>1 DEF Texts
        <5>2. CASE file.tail # NoText
          <6>1. Texts(file) = Append(file.lines, file.tail)
            BY <5>2 DEF Texts
          <6> QED BY <3>3, <4>1, <6>1, Appended
        <5> QED BY <5>1, <5>2
      <4> QED BY <1>0, <4>2 DEF Loadable, Readable
    <3>5. file.lines[i] = r
      BY <3>3, <3>4
    <3>6. \E j \in 1..Len(OfRun(r.body.run, Texts(file))) : OfRun(r.body.run, Texts(file))[j] = r
      BY <1>0, <3>1, <3>3, <3>5, LoadedRuns
    <3> QED BY <1>0, <3>1, <3>6 DEF Indexed
  <2> QED BY <1>0, <2>1, <2>2 DEF AckedKept
<1>3. (~ faulted => Intact)'
  <2> SUFFICES ASSUME ~ faulted PROVE Intact'
    BY <1>0
  <2>1. file.tail = NoText /\ Sane(Ahead) /\ Ahead = file.lines /\ Texts(file) = file.lines
    BY <1>0 DEF Intact, Ahead, Texts
  <2>2. Ahead' = file.lines
    BY <1>0 DEF Ahead
  <2> QED BY <1>0, <2>1, <2>2 DEF Intact
<1>4. (DurablePrefix /\ AckedFiled /\ InProgress /\ RefusesOnlyFaults /\ EmptyIndex)'
  BY <1>0 DEF DurablePrefix, AckedFiled, InProgress, RefusesOnlyFaults, EmptyIndex, Up
<1> QED BY <1>1, <1>2, <1>3, <1>4 DEF FileInv

\* A start that reads nothing has an empty store, and lacks what there was.
LEMMA UnseenKeeps == FileInv /\ OpenUnseen => FileInv'
<1> SUFFICES ASSUME FileInv, OpenUnseen PROVE FileInv'
  OBVIOUS
<1>0. /\ FileTypeOK /\ DurablePrefix /\ AckedFiled /\ (~ faulted => Intact)
      /\ state = "down" /\ state' = "up" /\ missed' = acked
      /\ faulted' = (faulted \/ file # EmptyFile)
      /\ UNCHANGED <<runs, file, durable, appending, acked, crashes>>
  BY DEF FileInv, OpenUnseen
<1>1. runs = [run \in RunIDs |-> << >>]
  BY <1>0 DEF FileInv, EmptyIndex, Up
<1>2. \A run \in RunIDs : Len(runs[run]) = 0
  BY <1>1
<1>3. AckedKept'
  BY <1>0, <1>2 DEF AckedKept, VerifyChain, HashesCommit
<1>4. (~ faulted => Intact)'
  <2> SUFFICES ASSUME ~ faulted, file = EmptyFile PROVE Intact'
    BY <1>0
  <2>1. file.lines = << >> /\ file.tail = NoText
    BY DEF EmptyFile
  <2>2. Ahead' = << >>
    BY <1>0, <2>1 DEF Ahead
  <2> QED BY <1>0, <1>1, <2>1, <2>2, SaneEmpty, OfRunEmpty DEF Intact
<1>5. FileTypeOK'
  BY <1>0 DEF FileTypeOK
<1>6. (DurablePrefix /\ AckedFiled /\ InProgress /\ RefusesOnlyFaults /\ EmptyIndex)'
  BY <1>0 DEF DurablePrefix, AckedFiled, InProgress, RefusesOnlyFaults, EmptyIndex, Up
<1> QED BY <1>3, <1>4, <1>5, <1>6 DEF FileInv

\* Without a fault every file of readable lines loads, so what is refused has
\* one or the other.
LEMMA RefuseKeeps == FileInv /\ (Refuse \/ ReadFails) => FileInv'
<1> SUFFICES ASSUME FileInv, Refuse \/ ReadFails PROVE FileInv'
  OBVIOUS
<1>0. /\ FileTypeOK /\ DurablePrefix /\ AckedFiled /\ EmptyIndex /\ (~ faulted => Intact)
      /\ state = "down" /\ state' = "refused"
      /\ UNCHANGED <<runs, file, durable, appending, acked, missed, crashes>>
      /\ \/ faulted' = TRUE
         \/ faulted' = faulted /\ ~ Loadable(file)
  BY DEF FileInv, Refuse, ReadFails
<1>1. RefusesOnlyFaults'
  <2> SUFFICES ASSUME ~ faulted', \A i \in 1..Len(Texts(file)) : ~ TooLong(Texts(file)[i])
               PROVE  FALSE
    BY <1>0 DEF RefusesOnlyFaults
  <2>1. ~ faulted /\ ~ Loadable(file)
    BY <1>0
  <2>2. file.tail = NoText /\ Sane(file.lines)
    BY <1>0, <2>1 DEF Intact, Ahead
  <2> QED BY <2>1, <2>2, SaneLoads
<1>2. FileTypeOK'
  BY <1>0 DEF FileTypeOK
<1>3. (DurablePrefix /\ AckedFiled /\ InProgress /\ AckedKept /\ EmptyIndex)'
  BY <1>0 DEF DurablePrefix, AckedFiled, InProgress, AckedKept, Up, EmptyIndex
<1>4. (~ faulted => Intact)'
  BY <1>0 DEF Intact, Ahead, Up
<1> QED BY <1>1, <1>2, <1>3, <1>4 DEF FileInv

LEMMA FileSteps == FileInv /\ [FileNext]_fileVars => FileInv'
<1> SUFFICES ASSUME FileInv, [FileNext]_fileVars PROVE FileInv'
  OBVIOUS
<1>1. CASE UNCHANGED fileVars
  <2>1. UNCHANGED <<runs, file, durable, appending, state, acked, missed, faulted, crashes>>
    BY <1>1 DEF fileVars
  <2>2. (FileTypeOK /\ DurablePrefix /\ AckedFiled /\ InProgress)'
    BY <2>1 DEF FileInv, FileTypeOK, DurablePrefix, AckedFiled, InProgress, Indexed
  <2>3. (AckedKept /\ RefusesOnlyFaults /\ EmptyIndex /\ (~ faulted => Intact))'
    BY <2>1 DEF FileInv, AckedKept, Up, Indexed, RefusesOnlyFaults, EmptyIndex, Intact, Ahead
  <2> QED BY <2>2, <2>3 DEF FileInv
<1> QED
  BY <1>1, AppendMemKeeps, WriteKeeps, WriteFailsKeeps, SyncKeeps, CrashKeeps, LoadKeeps,
     UnseenKeeps, RefuseKeeps DEF FileNext

-----------------------------------------------------------------------------
(* Results *)

\* The invariant of the store: synced lines stay, acknowledged records are among
\* them, and until there is a fault the file holds what memory holds.
THEOREM FileSafe == FileSpec => []FileInv
  BY FileStarts, FileSteps, PTL DEF FileSpec

\* However writes, syncs, crashes and starts fall, a store that is up holds
\* verified chains with every record whose Append returned nil, but for those
\* from before a start that read nothing; a start that reads the file brings
\* them back.
THEOREM AcksSurvive == FileSpec => []AckedKept
<1>1. FileInv => AckedKept
  BY DEF FileInv
<1> QED BY <1>1, FileSafe, PTL

\* NewFileStore loads what the store itself wrote, unless a line is longer than
\* its scanner takes, a write or a read failed, a start read nothing over a
\* file, or a crash cut a line: prefixes of the lines of its runs are chains.
THEOREM RefusalsHaveFaults == FileSpec => []RefusesOnlyFaults
<1>1. FileInv => RefusesOnlyFaults
  BY DEF FileInv
<1> QED BY <1>1, FileSafe, PTL

=============================================================================
