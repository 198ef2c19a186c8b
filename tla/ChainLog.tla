----------------------------- MODULE ChainLog ------------------------------
(***************************************************************************)
(* What a JournalStore promises its callers (the interface of              *)
(* pkg/journal/store.go): one append-only log per run, extended by one     *)
(* record at a time, each record sealed, linked to the head of its run and *)
(* carrying a decision id no record of the store had before.               *)
(***************************************************************************)
EXTENDS MerkleChain

VARIABLE log      \* run -> the records committed to it, in order

\* rec may be committed now.
Admissible(rec) ==
  /\ VerifyIntegrity(rec)
  /\ rec.prev = HeadHash(log[rec.body.run])
  /\ \A run \in RunIDs : \A i \in 1..Len(log[run]) :
       log[run][i].body.id # rec.body.id

LogInit == log = [run \in RunIDs |-> << >>]

\* One record is committed to one run and nothing else changes.
Commit(run) ==
  LET rec == log'[run][Len(log[run]) + 1]
  IN /\ Len(log'[run]) = Len(log[run]) + 1
     /\ log' = [log EXCEPT ![run] = Append(@, rec)]
     /\ rec.body.run = run
     /\ Admissible(rec)

LogNext == \E run \in RunIDs : Commit(run)

LogSpec == LogInit /\ [][LogNext]_log
=============================================================================
