--------------------------- MODULE MCMemoryStore ---------------------------
(* Two writers and a reader over two runs and two decision ids. *)
EXTENDS MemoryStore

CONSTANTS r1, r2, d1, d2

MCRunIDs == {r1, r2}
MCDecisionIDs == {d1, d2}
\* d1 and d2 are decisions of r1, and a record of r2 claims the id d2 too.
MCBodies == {[run |-> r1, id |-> d1], [run |-> r1, id |-> d2],
             [run |-> r2, id |-> d2]}
=============================================================================
