--------------------------- MODULE MCOutboxRelay ---------------------------
EXTENDS OutboxRelay

CONSTANTS k, l, p, q

TwoEvents == 1..2
ThreeEvents == 1..3

(* Events 1 and 3 are about one entity, event 2 about another.             *)
Alternating == [e \in Events |-> IF e = 2 THEN l ELSE k]

TwoPartitions == [key \in Keys |-> IF key = k THEN p ELSE q]
=============================================================================
