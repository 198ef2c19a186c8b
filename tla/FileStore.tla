----------------------------- MODULE FileStore -----------------------------
(***************************************************************************)
(* FileStore of pkg/journal/store.go: a MemoryStore in front of a JSON     *)
(* Lines file.  Append, under fs.mu, first appends to the memory index,    *)
(* then opens the file, writes the record and its newline in one write,    *)
(* and syncs.  Any of these may fail, and the process or the machine may   *)
(* stop between any two of them.  NewFileStore reads the file back and     *)
(* appends every line to a fresh MemoryStore; one bad line fails it, and   *)
(* so does one longer than the scanner's 16 MB, which Append writes.  When *)
(* os.Stat fails, for whatever reason, it reads nothing.                   *)
(*                                                                         *)
(* A line is the record it holds, or Garbled when it does not parse.       *)
(***************************************************************************)
EXTENDS MerkleChain, FiniteSets

CONSTANTS
  Garbled,      \* text json.Unmarshal refuses
  NoText,       \* the file ends with a newline (or is empty)
  Idle,         \* no Append holds fs.mu
  Oversized,    \* bodies of records whose line is longer than the scanner takes
  MaxCrashes    \* bound on crashes

ASSUME FileAssumption ==
  /\ MaxCrashes \in Nat
  /\ Cardinality({Garbled, NoText, Idle}) = 3
  /\ {Garbled, NoText, Idle} \cap Record = {}
  /\ \A body \in Bodies : body.run \in RunIDs
  /\ Oversized \subseteq Bodies

VARIABLES
  runs,      \* the memory index: run -> records
  file,      \* [lines, tail]: complete lines and the text after the last newline
  durable,   \* the file as of the last successful sync
  appending, \* the record of the Append that holds fs.mu, or Idle
  state,     \* "up" or the step Append is at, "down", or "refused" to load
  acked,     \* records whose Append returned nil (history)
  missed,    \* those of them from before the start, if it read nothing (history)
  faulted,   \* a write or a read failed, or a crash cut a line (history)
  crashes    \* how many crashes there were

fileVars ==
  <<runs, file, durable, appending, state, acked, missed, faulted, crashes>>

Mem == INSTANCE ChainLog WITH log <- runs

EmptyFile == [lines |-> << >>, tail |-> NoText]

\* The texts the scanner hands out: every line, and a last one without newline.
Texts(f) == IF f.tail = NoText THEN f.lines ELSE Append(f.lines, f.tail)

\* The file after a write that completed: it lands after the tail, if any.
Written(f, r) ==
  [lines |-> Append(f.lines, IF f.tail = NoText THEN r ELSE Garbled),
   tail  |-> NoText]

\* The files a write cut short may leave: nothing written, part of the
\* record, or the record without its newline.
CutShort(f, r) ==
  {f, [f EXCEPT !.tail = Garbled], [f EXCEPT !.tail = IF @ = NoText THEN r ELSE Garbled]}

\* What a crash may leave of the file f of which d was synced: k whole lines
\* and nothing, part or all of the text that follows them.
Survivors(f, d) ==
  LET follows(k) == IF k < Len(f.lines) THEN f.lines[k+1] ELSE f.tail
      tails(k) == {follows(k)}
                  \cup (IF follows(k) = NoText THEN {} ELSE {Garbled})
                  \cup (IF k = Len(d.lines) THEN {d.tail} ELSE {NoText})
  IN UNION { {[lines |-> SubSeq(f.lines, 1, k), tail |-> t] : t \in tails(k)} :
             k \in Len(d.lines) .. Len(f.lines) }

-----------------------------------------------------------------------------
\* There is no file yet, which loads as an empty one.
FileInit ==
  /\ runs = [run \in RunIDs |-> << >>]
  /\ file = EmptyFile
  /\ durable = EmptyFile
  /\ appending = Idle
  /\ state = "down"
  /\ acked = {}
  /\ missed = {}
  /\ faulted = FALSE
  /\ crashes = 0

\* fs.mem.Append; a record it rejects changes nothing.
AppendMem ==
  /\ state = "up"
  /\ \E body \in Bodies :
       LET r == Seal(HeadHash(runs[body.run]), body)
       IN /\ Mem!Admissible(r)
          /\ runs' = [runs EXCEPT ![body.run] = Append(@, r)]
          /\ appending' = r
  /\ state' = "write"
  /\ UNCHANGED <<file, durable, acked, missed, faulted, crashes>>

\* The open, the marshalling or the write fails: Append returns the error.
WriteFails ==
  /\ state = "write"
  /\ file' \in CutShort(file, appending)
  /\ appending' = Idle
  /\ state' = "up"
  /\ faulted' = TRUE
  /\ UNCHANGED <<runs, durable, acked, missed, crashes>>

\* Mutant: Append returns nil before the sync.
WriteUnsynced ==
  /\ state = "write"
  /\ file' = Written(file, appending)
  /\ acked' = acked \cup {appending}
  /\ state' = "sync"
  /\ UNCHANGED <<runs, durable, appending, missed, faulted, crashes>>

Write ==
  /\ state = "write"
  /\ file' = Written(file, appending)
  /\ state' = "sync"
  /\ UNCHANGED <<runs, durable, appending, acked, missed, faulted, crashes>>

\* Mutant: a failed sync writes the record again.
SyncFailsRewrites ==
  /\ state = "sync"
  /\ file' = Written(file, appending)
  /\ appending' = Idle
  /\ state' = "up"
  /\ UNCHANGED <<runs, durable, acked, missed, faulted, crashes>>
SyncFails ==
  /\ state = "sync"
  /\ appending' = Idle
  /\ state' = "up"
  /\ UNCHANGED <<runs, file, durable, acked, missed, faulted, crashes>>

Sync ==
  /\ state = "sync"
  /\ durable' = file
  /\ acked' = acked \cup {appending}
  /\ appending' = Idle
  /\ state' = "up"
  /\ UNCHANGED <<runs, file, missed, faulted, crashes>>

\* The process or the machine stops.
Crash ==
  /\ state \in {"up", "write", "sync"}
  /\ crashes < MaxCrashes
  /\ file' \in Survivors(file, durable)
               \cup (IF state = "write" THEN CutShort(file, appending) ELSE {})
  /\ durable' = file'
  /\ runs' = [run \in RunIDs |-> << >>]
  /\ faulted' = (faulted \/ file'.tail # NoText)
  /\ appending' = Idle
  /\ state' = "down"
  /\ crashes' = crashes + 1
  /\ UNCHANGED <<acked, missed>>

\* A text the scanner hands out and json.Unmarshal takes.
TooLong(text) == text # Garbled /\ text.body \in Oversized
Readable(text) == text # Garbled /\ ~ TooLong(text)

\* Mutant: NewFileStore trusts the links it reads.
LoadableUnlinked(f) ==
  LET texts == Texts(f)
  IN /\ \A i \in 1..Len(texts) : Readable(texts[i])
     /\ \A i, j \in 1..Len(texts) : texts[i].body.id = texts[j].body.id => i = j

\* The records of a run among the texts, taken in turn.
OfRun(run, texts) ==
  LET taken[k \in 0..Len(texts)] ==
        IF k = 0 THEN << >>
        ELSE IF texts[k].body.run = run THEN Append(taken[k-1], texts[k])
        ELSE taken[k-1]
  IN taken[Len(texts)]

\* Every text is readable and MemoryStore.Append accepts the records in turn.
Loadable(f) ==
  LET texts == Texts(f)
  IN /\ \A i \in 1..Len(texts) : Readable(texts[i])
     /\ \A i, j \in 1..Len(texts) : texts[i].body.id = texts[j].body.id => i = j
     /\ \A run \in RunIDs : VerifyChain(OfRun(run, texts))

\* NewFileStore succeeds.
Load ==
  /\ state = "down"
  /\ Loadable(file)
  /\ runs' = [run \in RunIDs |-> OfRun(run, Texts(file))]
  /\ state' = "up"
  /\ missed' = {}
  /\ UNCHANGED <<file, durable, appending, acked, faulted, crashes>>

\* os.Stat fails although there may be a file: NewFileStore succeeds without
\* reading it.
OpenUnseen ==
  /\ state = "down"
  /\ state' = "up"
  /\ missed' = acked
  /\ faulted' = (faulted \/ file # EmptyFile)
  /\ UNCHANGED <<runs, file, durable, appending, acked, crashes>>

\* NewFileStore returns an error: because of what it reads, or because the file
\* cannot be opened or read.
Refuse ==
  /\ state = "down"
  /\ ~ Loadable(file)
  /\ state' = "refused"
  /\ UNCHANGED <<runs, file, durable, appending, acked, missed, faulted, crashes>>

ReadFails ==
  /\ state = "down"
  /\ state' = "refused"
  /\ faulted' = TRUE
  /\ UNCHANGED <<runs, file, durable, appending, acked, missed, crashes>>

FileNext ==
  \/ AppendMem \/ Write \/ WriteFails \/ Sync \/ SyncFails
  \/ Crash \/ Load \/ OpenUnseen \/ Refuse \/ ReadFails

FileSpec == FileInit /\ [][FileNext]_fileVars

-----------------------------------------------------------------------------
Up == state \in {"up", "write", "sync"}
Indexed(r) == \E i \in 1..Len(runs[r.body.run]) : runs[r.body.run][i] = r

FileTypeOK ==
  /\ runs \in [RunIDs -> Seq(Record)]
  /\ {file, durable} \subseteq [lines : Seq(Record \cup {Garbled}),
                               tail : Record \cup {Garbled, NoText}]
  /\ appending \in Record \cup {Idle}
  /\ state \in {"up", "write", "sync", "down", "refused"}
  /\ acked \subseteq Record /\ missed \subseteq acked
  /\ faulted \in BOOLEAN
  /\ crashes \in 0..MaxCrashes

\* A store that is up, after any failed writes, crashes and restarts, holds
\* chains that verify and every acknowledged record, except that one whose
\* start read nothing lacks what was acknowledged before: the next start that
\* reads the file brings back all of them or refuses.
AckedKept ==
  Up => /\ \A run \in RunIDs : VerifyChain(runs[run]) /\ HashesCommit(runs[run])
        /\ \A r \in acked : Indexed(r) \/ r \in missed

\* NewFileStore refuses only a file with a record longer than its scanner
\* takes, or after a fault: a write or a read failed, a start read nothing
\* over a file, or a crash cut a line.  Crashes at any other point, and failed
\* syncs, leave a file that loads.
RefusesOnlyFaults ==
  state = "refused" =>
    faulted \/ \E i \in 1..Len(Texts(file)) : TooLong(Texts(file)[i])

=============================================================================
