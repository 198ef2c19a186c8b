----------------------------- MODULE LoadLedger -----------------------------
(***************************************************************************)
(* What a simulated horizon promises about freight, whatever policy runs:  *)
(* a load is offered, stays outstanding until a driver is matched with it, *)
(* and is matched once.  No load is lost, none comes back.                 *)
(***************************************************************************)
CONSTANT Loads

VARIABLES outstanding, served

LedgerInit == outstanding \in SUBSET Loads /\ served = {}

\* One epoch: some outstanding loads are served, some new ones offered.
Settle(matched, offered) ==
  /\ matched \subseteq outstanding
  /\ offered \cap (outstanding \cup served) = {}
  /\ outstanding' = (outstanding \ matched) \cup offered
  /\ served' = served \cup matched

LedgerNext == \E matched, offered \in SUBSET Loads : Settle(matched, offered)

LedgerSpec == LedgerInit /\ [][LedgerNext]_<<outstanding, served>>
=============================================================================
