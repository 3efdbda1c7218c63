---------------------------- MODULE MCAccounting ----------------------------
(* The instances of Accounting that TLC checks. *)
EXTENDS Accounting
=============================================================================
