---------------------------- MODULE MCAuthCache ----------------------------
(* Instances of AuthCache for TLC; requests are interchangeable. *)
EXTENDS AuthCache, TLC

Symmetry == Permutations(Requests)
=============================================================================
