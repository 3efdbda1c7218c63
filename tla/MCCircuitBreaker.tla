-------------------------- MODULE MCCircuitBreaker --------------------------
(* Instances of CircuitBreaker for TLC.  No symmetry: the run checks        *)
(* temporal properties.                                                     *)
EXTENDS CircuitBreaker
=============================================================================
