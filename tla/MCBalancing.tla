----------------------------- MODULE MCBalancing -----------------------------
(* Instances of Balancing for TLC: three candidates, and the two that are   *)
(* left when the first one has failed.                                      *)
EXTENDS Balancing

CONSTANTS p1, p2, p3

Three == {p1, p2, p3}
Sets == {Three, {p2, p3}}
Four == {"ROUND_ROBIN", "WEIGHTED_ROUND_ROBIN", "LATENCY_BASED", "RANDOM"}
=============================================================================
