----------------------------- MODULE MCFailover -----------------------------
(* Instances of Failover for TLC: a candidate that may fail is first in the *)
(* list, so that a request meets it before the one that does not.           *)
EXTENDS Failover, TLC

CONSTANTS flaky, steady

Both == {flaky, steady}
RankBoth == (flaky :> 1) @@ (steady :> 2)

Symmetry == Permutations(Requests)
=============================================================================
