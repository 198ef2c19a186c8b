---------------------------- MODULE MCFileStore ----------------------------
(* A run of two decisions and one of an oversized decision, two crashes. *)
EXTENDS FileStore

CONSTANTS r1, r2, d1, d2, d3

MCRunIDs == {r1, r2}
MCBodies == {[run |-> r1, id |-> d1], [run |-> r1, id |-> d2], [run |-> r2, id |-> d3]}
MCOversized == {[run |-> r2, id |-> d3]}
=============================================================================
