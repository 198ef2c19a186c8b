---------------------------- MODULE MerkleChain ----------------------------
(***************************************************************************)
(* The records of the cryptographic journal and the links between them     *)
(* (pkg/journal/record.go and the chain checks of pkg/journal/store.go).   *)
(*                                                                         *)
(* SHA-256 is taken to be collision free.  The digest of a record covers   *)
(* the previous digest and the record's coordinates, so a digest is        *)
(* represented by all it commits to: the sequence of bodies from the first *)
(* record of the chain to this one.  That is an injective image of         *)
(* (previous digest, body), and the genesis value is no record's digest.   *)
(***************************************************************************)
EXTENDS Naturals, Sequences

CONSTANTS
  RunIDs,   \* run identifiers
  Bodies    \* what a digest covers besides the previous digest: run, id, ...

Hashes  == Seq(Bodies)
Genesis == << >>

Record == [prev : Hashes, body : Bodies, hash : Hashes]

RecordHash(prev, body) == Append(prev, body)

Seal(prev, body) ==
  [prev |-> prev, body |-> body, hash |-> RecordHash(prev, body)]

VerifyIntegrity(rec) == rec.hash = RecordHash(rec.prev, rec.body)

\* The digest the next record of a chain has to name as its predecessor.
HeadHash(chain) == IF chain = << >> THEN Genesis ELSE chain[Len(chain)].hash

\* The verdict of VerifyRunChain on the records of one run.
VerifyChain(chain) ==
  \A i \in 1..Len(chain) :
    /\ VerifyIntegrity(chain[i])
    /\ chain[i].prev = IF i = 1 THEN Genesis ELSE chain[i-1].hash

\* A digest in a chain commits to every body up to its record.
HashesCommit(chain) ==
  \A i \in 1..Len(chain) : chain[i].hash = [j \in 1..i |-> chain[j].body]
=============================================================================
