---------------------------- MODULE MCStreamSync ---------------------------
(* Two producers, one driver, two loads; each feed has a batch that is     *)
(* valid and one that is rejected after its first item.                    *)
EXTENDS StreamSync, TLC

CONSTANTS d1, l1, l2, t1, t2

ping(ts, load) == [kind |-> "ping", driver |-> d1, ts |-> ts, load |-> load]
tender(load, terms) == [kind |-> "tender", load |-> load, terms |-> terms]
cancel(load) == [kind |-> "cancel", load |-> load]

MCBatches == {<<tender(l1, t1), tender(l2, t1)>>,
              <<tender(l1, t2), [kind |-> "invalid"]>>,
              <<cancel(l1)>>,
              <<ping(2, l1)>>,
              <<ping(1, NoLoad), [kind |-> "invalid"]>>}

ProducerSymmetry == Permutations(Producers)
=============================================================================
