--------------------------- MODULE DispatchBook ----------------------------
(***************************************************************************)
(* What the stream buffer and its synchronizer promise about loads: a book *)
(* of offered loads to which every tender and every cancellation is        *)
(* applied at once, in the order they are accepted.  No buffering and no   *)
(* synchronization is visible.                                             *)
(***************************************************************************)
EXTENDS StreamFeed

VARIABLE book     \* load -> its terms, or NoTerms when it is not offered

BookInit == FeedInit /\ book = [l \in Loads |-> NoTerms]

Tender(p) ==
  /\ Running(p)
  /\ Item(p).kind = "tender"
  /\ book' = [book EXCEPT ![Item(p).load] = Item(p).terms]
  /\ Advance(p)

Cancel(p) ==
  /\ Running(p)
  /\ Item(p).kind = "cancel"
  /\ book' = [book EXCEPT ![Item(p).load] = NoTerms]
  /\ Advance(p)

Other(p) ==
  /\ \/ BeginBatch(p)
     \/ Running(p) /\ Item(p).kind = "ping" /\ Advance(p)
     \/ Running(p) /\ Item(p).kind = "invalid" /\ Reject(p)
  /\ UNCHANGED book

BookNext == \E p \in Producers : Tender(p) \/ Cancel(p) \/ Other(p)

BookSpec == BookInit /\ [][BookNext]_<<call, book>>
=============================================================================
